---- MODULE Spec2Model ----
(***************************************************************************)
(* A model of neurokin's stimulation/segmentation primitives               *)
(* (neurokin/utils/neural/processing.py, utils/importing.py) and of the    *)
(* NeuralCorrelatesStates session                                          *)
(* (neurokin/experiments/neural_states_correlates.py).                     *)
(*                                                                         *)
(* The functions of processing.py and importing.py are pure: `call' holds  *)
(* the function last called with its arguments, `ret' what the call        *)
(* produced (the returned value or the exception raised).  The session is  *)
(* an object with attributes; its methods are the actions of SpecSession.  *)
(*                                                                         *)
(* Arrays are sequences; an array of sample indices holds the 0-based      *)
(* indices of the code as values.                                          *)
(***************************************************************************)
EXTENDS Integers, Sequences, FiniteSets, TLC

VARIABLES
    call,               \* the function last called and its arguments
    ret,                \* its outcome: [raised, value, ...]
    experiment_structure, \* session: the declared trials, flattened
    skip_subjects,      \* session.skip_subjects
    skip_conditions,    \* session.skip_conditions
    disk,               \* the experiment folder: what each trial's run directory holds
    events_dataset,     \* session.events_dataset: <<>> is None, <<rows>> a table
    method,             \* the session method last called, or "none"
    stdout,             \* the lines the session printed during the last method call
    raised,             \* the exception the last method call ended with, or "none"
    neural,             \* session: the attributes of the neural passes, by name
    saved,              \* the save_data(data, filename) calls of the last method call
    c3d_file,           \* the markers of the c3d file at a KinematicDataRun's path
    kinematic_run       \* the attributes of the KinematicDataRun

fnvars == <<call, ret>>
kinvars == <<c3d_file, kinematic_run>>
sessionvars == <<experiment_structure, skip_subjects, skip_conditions, disk,
                 events_dataset, method, stdout, raised, neural, saved, kinvars>>
vars == <<call, ret, experiment_structure, skip_subjects, skip_conditions, disk,
          events_dataset, method, stdout, raised, neural, saved, c3d_file,
          kinematic_run>>

----------------------------------------------------------------------------
(* Bounds of the model.                                                    *)

MaxSync == 5        \* longest sync channel
MaxPulses == 2      \* largest pulses / expected_pulses argument
MaxAmp == 2         \* largest n_amp_tested
MaxWhole == 3       \* largest whole part of a timestamp, in seconds
MaxRaw == 5         \* longest raw signal
MaxOnset == 6       \* largest onset index
MaxOnsets == 3      \* most onsets handed to parse_raw
MaxBefore == 3      \* largest samples_before_stim
MaxMinLen == 2      \* largest min_len_chunk
MaxData == 3        \* longest data array of the index searches
MaxVal == 3         \* largest magnitude of a data value or datapoint
MaxTrials == 3      \* most trials of an experiment structure
MaxSignal == 4      \* longest signal handed to running_mean
MaxWindow == 6      \* largest window of running_mean
MaxRows == 4        \* most rows of a chunk matrix
MaxTested == 3      \* most tested amplitudes
MaxPulsesNumber == 3 \* largest pulses_number
MaxTrace == 7       \* longest limb trace
MaxPoints == 4      \* longest array of points
MaxSmooth == 2      \* most smoothing passes over one markers table

----------------------------------------------------------------------------
(* Python and numpy primitives.                                            *)

Min2(a, b) == IF a <= b THEN a ELSE b
Max2(a, b) == IF a >= b THEN a ELSE b

SeqsUpTo(S, n) == UNION {[1..k -> S] : k \in 0..n}

\* A slice bound as Python resolves it against a length: negative counts from the end.
SliceBound(i, n) == IF i < 0 THEN Max2(i + n, 0) ELSE Min2(i, n)

\* s[start:stop]
PySlice(s, start, stop) ==
    LET a == SliceBound(start, Len(s))
        b == SliceBound(stop, Len(s))
    IN  IF a >= b THEN <<>> ELSE SubSeq(s, a + 1, b)

\* s[:stop]
PyPrefix(s, stop) == PySlice(s, 0, stop)

\* s[::step], step >= 1
PyStride(s, step) ==
    [i \in 1..((Len(s) + step - 1) \div step) |-> s[(i - 1) * step + 1]]

\* An optional argument: <<>> is None, <<v>> is the value v.
None == <<>>
Some(v) == <<v>>
\* Python's truth value of an optional integer: None and 0 are false.
Truthy(opt) == opt # None /\ opt[1] # 0

\* np.where(mask)[0]: the 0-based indices at which mask holds, ascending.
NpWhere(mask) ==
    SelectSeq([i \in 1..Len(mask) |-> i - 1], LAMBDA k : mask[k + 1])

----------------------------------------------------------------------------
(* Decimal numbers.  A non-negative real is [w, n, t]: w + n*1e-9 +        *)
(* t*1e-10, enough to tell a product that is an integer from one that is   *)
(* an integer only to nine decimals.                                       *)

Giga == 1000000000

Dec(w, n, t) == [w |-> w, n |-> n, t |-> t]

\* timestamp * fs for an integer-valued fs
DecTimes(x, k) ==
    LET t2 == x.t * k
        n2 == x.n * k + (t2 \div 10)
    IN  Dec(x.w * k + (n2 \div Giga), n2 % Giga, t2 % 10)

\* np.floor, np.ceil
NpFloor(x) == x.w
NpCeil(x) == IF x.n = 0 /\ x.t = 0 THEN x.w ELSE x.w + 1

\* np.round: to the nearest integer, a tie to the even one
NpRound(x) ==
    LET half == Giga \div 2
    IN  IF x.n > half \/ (x.n = half /\ x.t > 0) THEN x.w + 1
        ELSE IF x.n = half /\ x.t = 0 THEN (IF x.w % 2 = 0 THEN x.w ELSE x.w + 1)
        ELSE x.w

\* np.round(x * 1e9) / 1e9: x to nine decimals, a tie to the even nano
NpRound9(x) ==
    LET up == IF x.t > 5 \/ (x.t = 5 /\ x.n % 2 = 1) THEN 1 ELSE 0
        r  == x.n + up
    IN  IF r = Giga THEN Dec(x.w + 1, 0, 0) ELSE Dec(x.w, r, 0)

(* Integers of 64 bits and more: [hi, lo] is hi * 2^64 + lo, lo small.     *)
Wide(v) == [hi |-> 0, lo |-> v]
WLess(a, b) == a.hi < b.hi \/ (a.hi = b.hi /\ a.lo < b.lo)
WLeq(a, b) == a = b \/ WLess(a, b)

\* What converting a float to uint64 gives.  A negative float is out of range,
\* which C leaves undefined: a build either wraps it modulo 2^64 or saturates
\* it at 0.
CastOutcomes == {"wrap", "saturate"}
NpUInt64(v, cast) ==
    IF v >= 0 THEN Wide(v)
    ELSE IF cast = "wrap" THEN [hi |-> 1, lo |-> v] ELSE Wide(0)

\* int64 + uint64 promotes to float64: exact below 2^53, and 2^64 - 1 plus a
\* small index rounds to 2^64.
Float64Add(a, w) ==
    IF w.hi = 0 THEN Wide(a + w.lo) ELSE [hi |-> 1, lo |-> 0]

----------------------------------------------------------------------------
(* utils/importing.py                                                      *)

\* time_to_sample returning the rounded float as a signed integer
time_to_sample_signed(timestamp, fs, is_t1, is_t2, cast) ==
    LET sample == DecTimes(timestamp, fs)
        exact  == NpRound9(sample)
        floor  == NpFloor(sample)
    IN  Wide(IF is_t2
             THEN (IF exact = Dec(floor, 0, 0) THEN floor - 1 ELSE floor)
             ELSE IF is_t1 THEN NpCeil(sample) ELSE NpRound(sample))

time_to_sample(timestamp, fs, is_t1, is_t2, cast) ==
    LET sample == DecTimes(timestamp, fs)
        exact  == NpRound9(sample)
        floor  == NpFloor(sample)
        s      == IF is_t2
                  THEN (IF exact = Dec(floor, 0, 0) THEN floor - 1 ELSE floor)
                  ELSE IF is_t1 THEN NpCeil(sample) ELSE NpRound(sample)
    IN  NpUInt64(s, cast)

----------------------------------------------------------------------------
(* neurokin/utils/neural/processing.py                                     *)

Returned(v) == [raised |-> "none", value |-> v]
Raised(e, why) == [raised |-> e, why |-> why]

\* get_stim_timestamps with np.diff's prepend left out: every change is
\* reported one sample early and the first sample's level is never seen.
get_stim_timestamps_no_prepend(sync_ch, expected_pulses) ==
    LET above == [i \in 1..Len(sync_ch) |-> sync_ch[i] > 0]
        threshold_crossing ==
            [i \in 1..(Len(sync_ch) - 1) |-> above[i + 1] # above[i]]
        idxs_edges == NpWhere(threshold_crossing)
        stim_starts == PyStride(idxs_edges, 2)
    IN  IF Truthy(expected_pulses)
        THEN PyPrefix(stim_starts, expected_pulses[1])
        ELSE stim_starts

get_stim_timestamps(sync_ch, expected_pulses) ==
    LET above == [i \in 1..Len(sync_ch) |-> sync_ch[i] > 0]
        threshold_crossing ==
            [i \in 1..Len(sync_ch) |->
                above[i] # (IF i = 1 THEN FALSE ELSE above[i - 1])]
        idxs_edges == NpWhere(threshold_crossing)
        stim_starts == PyStride(idxs_edges, 2)
    IN  IF Truthy(expected_pulses)
        THEN PyPrefix(stim_starts, expected_pulses[1])
        ELSE stim_starts

\* get_timestamps_stim_blocks without the check of the sync data's dimensions
get_timestamps_stim_blocks_unchecked(neudata, n_amp_tested, pulses, time_stim, cast) ==
    LET total_pulses == n_amp_tested * pulses
        sync == get_stim_timestamps(neudata.sync_data, Some(total_pulses))
    IN  IF pulses = 0
        THEN Raised("ValueError", "slice step cannot be zero")
               @@ [trace |-> <<"get_stim_timestamps">>]
        ELSE
          LET onset == PyStride(sync, pulses)
              stim_len == time_to_sample(time_stim, neudata.fs, FALSE, TRUE, cast)
              timestamps_blocks ==
                  [i \in 1..Len(onset) |->
                      <<Wide(onset[i]), Float64Add(onset[i], stim_len)>>]
          IN  Returned(timestamps_blocks)
                @@ [trace |-> <<"get_stim_timestamps", "time_to_sample">>]

\* neudata is [shape, sync_data, fs]; a multichannel sync_data is never read.
\* The outcome carries the calls made, in order.
get_timestamps_stim_blocks(neudata, n_amp_tested, pulses, time_stim, cast) ==
    IF Len(neudata.shape) > 1
    THEN Raised("ValueError", "multichannel sync data") @@ [trace |-> <<>>]
    ELSE
      LET total_pulses == n_amp_tested * pulses
          sync == get_stim_timestamps(neudata.sync_data, Some(total_pulses))
      IN  IF pulses = 0
          THEN Raised("ValueError", "slice step cannot be zero")
                 @@ [trace |-> <<"get_stim_timestamps">>]
          ELSE
            LET onset == PyStride(sync, pulses)
                stim_len == time_to_sample(time_stim, neudata.fs, FALSE, TRUE, cast)
                timestamps_blocks ==
                    [i \in 1..Len(onset) |->
                        <<Wide(onset[i]), Float64Add(onset[i], stim_len)>>]
            IN  Returned(timestamps_blocks)
                  @@ [trace |-> <<"get_stim_timestamps", "time_to_sample">>]

\* A quotient num / den of two integers, as the float it yields.
Frac(num, den) == [num |-> num, den |-> den]

\* np.cumsum
RECURSIVE NpCumSum(_)
NpCumSum(a) ==
    IF Len(a) = 0 THEN <<>>
    ELSE LET before == NpCumSum(SubSeq(a, 1, Len(a) - 1))
         IN  Append(before, (IF Len(before) = 0 THEN 0 ELSE before[Len(before)])
                            + a[Len(a)])

\* running_mean with the leading zero of np.insert left out: the first window
\* is lost and every mean is that of one sample less.
running_mean_no_insert(x, n) ==
    LET cumsum == NpCumSum(x)
        upper  == PySlice(cumsum, n, Len(cumsum))
        lower  == IF n = 0 THEN <<>> ELSE PyPrefix(cumsum, -n)
    IN  IF Len(upper) # Len(lower) /\ Len(upper) # 1 /\ Len(lower) # 1
        THEN Raised("ValueError", "operands could not be broadcast together")
        ELSE IF Len(upper) = 0 \/ Len(lower) = 0 THEN Returned(<<>>)
        ELSE Returned([i \in 1..Len(upper) |-> Frac(upper[i] - lower[i], n)])

\* cumsum[:-n] is cumsum[:0] when n is 0.  Arrays of unequal lengths are
\* subtracted only if one of them has length one, and the difference with an
\* empty array is empty.
running_mean(x, n) ==
    LET cumsum == NpCumSum(<<0>> \o x)
        upper  == PySlice(cumsum, n, Len(cumsum))
        lower  == IF n = 0 THEN <<>> ELSE PyPrefix(cumsum, -n)
    IN  IF Len(upper) # Len(lower) /\ Len(upper) # 1 /\ Len(lower) # 1
        THEN Raised("ValueError", "operands could not be broadcast together")
        ELSE IF Len(upper) = 0 \/ Len(lower) = 0 THEN Returned(<<>>)
        ELSE Returned([i \in 1..Len(upper) |-> Frac(upper[i] - lower[i], n)])

MinOf(S) == CHOOSE m \in S : \A x \in S : m <= x

\* trim_equal_len trimming to the length of the first array, not the shortest
trim_equal_len_first(raw) ==
    [i \in 1..Len(raw) |-> PyPrefix(raw[i], Len(raw[1]))]

trim_equal_len(raw) ==
    LET lens == {Len(raw[i]) : i \in 1..Len(raw)}
    IN  [i \in 1..Len(raw) |-> PyPrefix(raw[i], MinOf(lens))]

\* np.split(ary, indices): the slices between consecutive division points
NpSplit(ary, indices) ==
    LET div_points == <<0>> \o indices \o <<Len(ary)>>
    IN  [k \in 1..(Len(indices) + 1) |-> PySlice(ary, div_points[k], div_points[k + 1])]

\* The onsets parse_raw splits at: shifted back, the first clamped to 0, every
\* second one kept when skip_one.
shifted_idxs(stimulation_idxs, samples_before_stim, skip_one) ==
    LET shifted == [i \in 1..Len(stimulation_idxs) |->
                        stimulation_idxs[i] - samples_before_stim]
        clamped == [i \in 1..Len(shifted) |->
                        IF i = 1 /\ shifted[1] < 0 THEN 0 ELSE shifted[i]]
    IN  IF skip_one THEN PyStride(clamped, 2) ELSE clamped

\* split_raw with the chunk that precedes the first onset kept
split_raw_keep_first(raw, stimulation_idxs, samples_before_stim, skip_one) ==
    NpSplit(raw, shifted_idxs(stimulation_idxs, samples_before_stim, skip_one))

\* The chunks parse_raw cuts, the one before the first onset dropped, before
\* the min_len_chunk filter.
split_raw(raw, stimulation_idxs, samples_before_stim, skip_one) ==
    Tail(NpSplit(raw, shifted_idxs(stimulation_idxs, samples_before_stim, skip_one)))

parse_raw(raw, stimulation_idxs, samples_before_stim, skip_one, min_len_chunk) ==
    IF Len(stimulation_idxs) = 0
    THEN Raised("IndexError", "index 0 is out of bounds")
    ELSE
      LET chunks == split_raw(raw, stimulation_idxs, samples_before_stim, skip_one)
          kept == SelectSeq(chunks, LAMBDA chunk : Len(chunk) >= min_len_chunk)
          leveled_list == trim_equal_len(kept)
      IN  IF Len(leveled_list) = 0
          THEN Raised("ValueError", "need at least one array to concatenate")
          ELSE Returned(leveled_list)

\* np.mean(parsed, axis=0) of a matrix [width, rows]: per column the sum of
\* the rows over their count, 0/0 (not-a-number) when there is no row.
RECURSIVE SumSeq(_)
SumSeq(a) == IF Len(a) = 0 THEN 0 ELSE Head(a) + SumSeq(Tail(a))
NpMeanAxis0(width, rows) ==
    [c \in 1..width |-> Frac(SumSeq([k \in 1..Len(rows) |-> rows[k][c]]), Len(rows))]

\* average_block slicing from the first row on, whatever the start
average_block_from_zero(array, start, stop) ==
    NpMeanAxis0(array.width, PySlice(array.rows, 0, stop))

average_block(array, start, stop) ==
    LET parsed == PySlice(array.rows, start, stop)
    IN  NpMeanAxis0(array.width, parsed)

\* get_average_amplitudes without the branch for a single tested amplitude
get_average_amplitudes_no_single(parsed_raw, tested_amplitudes, pulses_number) ==
    LET number_tested_amplitudes == Len(tested_amplitudes)
    IN  IF ~Truthy(pulses_number) /\ Len(tested_amplitudes) = 0
        THEN Raised("ZeroDivisionError", "division by zero")
        ELSE
          LET pn == IF Truthy(pulses_number) THEN pulses_number[1]
                    ELSE Len(parsed_raw.rows) \div Len(tested_amplitudes)
          IN  Returned([k \in 1..number_tested_amplitudes |->
                           average_block(parsed_raw, (k - 1) * pn, k * pn)])

\* parsed_raw is the matrix [width, rows]; `not pulses_number' holds for None
\* and for 0; int() of a quotient of two lengths is its floor.
get_average_amplitudes(parsed_raw, tested_amplitudes, pulses_number) ==
    LET number_tested_amplitudes == Len(tested_amplitudes)
    IN  IF number_tested_amplitudes = 1
        THEN Returned(<<average_block(parsed_raw, 0, Len(parsed_raw.rows))>>)
        ELSE IF ~Truthy(pulses_number) /\ Len(tested_amplitudes) = 0
        THEN Raised("ZeroDivisionError", "division by zero")
        ELSE
          LET pn == IF Truthy(pulses_number) THEN pulses_number[1]
                    ELSE Len(parsed_raw.rows) \div Len(tested_amplitudes)
          IN  Returned([k \in 1..number_tested_amplitudes |->
                           average_block(parsed_raw, (k - 1) * pn, k * pn)])

\* A float of a data array: the number v, or not-a-number.
Num(v) == [nan |-> FALSE, v |-> v]
NaN == [nan |-> TRUE, v |-> 0]
IsNaN(x) == x.nan
Abs(x) == IF x < 0 THEN -x ELSE x

\* ndarray.argmin(): the first index of the smallest value
ArgMin(a) ==
    (CHOOSE i \in 1..Len(a) :
        /\ \A j \in 1..Len(a) : a[i] <= a[j]
        /\ \A j \in 1..(i - 1) : a[j] > a[i]) - 1

\* find_closest_index with the absolute value left out
find_closest_index_signed(data, datapoint) ==
    IF \E i \in 1..Len(data) : IsNaN(data[i])
    THEN Raised("ValueError", "The input array contains nan")
    ELSE IF Len(data) = 0
    THEN Raised("ValueError", "attempt to get argmin of an empty sequence")
    ELSE Returned(ArgMin([i \in 1..Len(data) |-> data[i].v - datapoint]))

\* find_closest_index without the not-a-number check: argmin over distances
\* that hold a not-a-number gives the index of the first of them.
find_closest_index_nan_unchecked(data, datapoint) ==
    IF Len(data) = 0
    THEN Raised("ValueError", "attempt to get argmin of an empty sequence")
    ELSE IF \E i \in 1..Len(data) : IsNaN(data[i])
    THEN Returned((CHOOSE i \in 1..Len(data) :
                      IsNaN(data[i]) /\ \A j \in 1..(i - 1) : ~IsNaN(data[j])) - 1)
    ELSE Returned(ArgMin([i \in 1..Len(data) |-> Abs(data[i].v - datapoint)]))

find_closest_index(data, datapoint) ==
    IF \E i \in 1..Len(data) : IsNaN(data[i])
    THEN Raised("ValueError", "The input array contains nan")
    ELSE IF Len(data) = 0
    THEN Raised("ValueError", "attempt to get argmin of an empty sequence")
    ELSE Returned(ArgMin([i \in 1..Len(data) |-> Abs(data[i].v - datapoint)]))

\* The floats of find_closest_smaller_index: finite numbers, the two
\* infinities (v is the sign) and not-a-number.
Fin(v) == [cls |-> "fin", v |-> v]
PosInf == [cls |-> "inf", v |-> 1]
NegInf == [cls |-> "inf", v |-> -1]
NotANumber == [cls |-> "nan", v |-> 0]

\* a - b
FSub(a, b) ==
    IF a.cls = "nan" \/ b.cls = "nan" THEN NotANumber
    ELSE IF a.cls = "inf" THEN (IF b.cls = "inf" /\ b.v = a.v THEN NotANumber ELSE a)
    ELSE IF b.cls = "inf" THEN [cls |-> "inf", v |-> -b.v]
    ELSE Fin(a.v - b.v)

\* abs(a)
FAbs(a) == IF a.cls = "nan" THEN a ELSE [cls |-> a.cls, v |-> Abs(a.v)]

\* a < b: false as soon as one side is not-a-number
FLess(a, b) ==
    /\ a.cls # "nan" /\ b.cls # "nan"
    /\ IF a.cls = "inf" THEN a.v < 0 /\ ~(b.cls = "inf" /\ b.v < 0)
       ELSE IF b.cls = "inf" THEN b.v > 0
       ELSE a.v < b.v

\* One pass of the loop of find_closest_smaller_index: st is
\* [min_difference, idx] and i the 0-based index at hand.
smaller_step(st, data, datapoint, i) ==
    IF /\ FLess(FAbs(FSub(data[i + 1], datapoint)), st.min_difference)
       /\ FLess(data[i + 1], datapoint)
    THEN [min_difference |-> FAbs(FSub(data[i + 1], datapoint)), idx |-> i]
    ELSE st

RECURSIVE smaller_loop(_, _, _, _)
smaller_loop(st, data, datapoint, i) ==
    IF i >= Len(data) THEN st
    ELSE smaller_loop(smaller_step(st, data, datapoint, i), data, datapoint, i + 1)

find_closest_smaller_index(data, datapoint) ==
    Returned(smaller_loop([min_difference |-> PosInf, idx |-> 0],
                          data, datapoint, 0).idx)

----------------------------------------------------------------------------
(* The inputs the functions are called with.                               *)

SyncLevels == {-1, 0, 1}
PulseLevels == {0, 1}
FsChoices == {1, 2}
\* Fractions of a second as <<n, t>>: none, and ones that sit at, just below
\* and just above the ninth decimal, a quarter, a half, and just under one.
Fractions == {<<0, 0>>, <<0, 4>>, <<0, 5>>, <<0, 6>>, <<250000000, 0>>,
              <<500000000, 0>>, <<999999999, 5>>, <<999999999, 6>>}
Timestamps == {Dec(w, f[1], f[2]) : w \in 0..MaxWhole, f \in Fractions}
Durations == {Dec(w, f[1], f[2]) : w \in 0..MaxWhole, f \in {<<0, 0>>, <<500000000, 0>>}}

\* A recording's sync data: one channel of samples, or several channels.
NeuralData ==
    {[shape |-> <<Len(s)>>, sync_data |-> s, fs |-> f] :
        s \in SeqsUpTo(PulseLevels, MaxSync), f \in FsChoices}
    \cup {[shape |-> <<2, MaxSync>>, sync_data |-> <<>>, fs |-> f] : f \in FsChoices}

Ramp(n) == [i \in 1..n |-> 100 + i]
RawSignals == {Ramp(n) : n \in 0..MaxRaw} \cup SeqsUpTo({0, 1}, 2)

\* Strictly increasing index sequences: the order np.where returns.
StrictlyIncreasing(s) == \A i \in 1..(Len(s) - 1) : s[i] < s[i + 1]
Onsets == {s \in SeqsUpTo(0..MaxOnset, MaxOnsets) : StrictlyIncreasing(s)}

SignalLevels == {-1, 2, 3}

DataValues == {Num(v) : v \in -MaxVal..MaxVal} \cup {NaN}

Pending == [raised |-> "pending"]
NoKinematicRun == c3d_file = <<>> /\ kinematic_run = <<>>
NoSession ==
    /\ NoKinematicRun
    /\ neural = <<>>
    /\ experiment_structure = <<>>
    /\ skip_subjects = {}
    /\ skip_conditions = {}
    /\ disk = <<>>
    /\ events_dataset = None
    /\ method = "none"
    /\ stdout = <<>>
    /\ raised = "none"
    /\ saved = <<>>

----------------------------------------------------------------------------
(* Calls of the stimulation functions: a call is drawn, then applied.      *)

StimCalls ==
    {[fn |-> "get_stim_timestamps", sync_ch |-> s, expected_pulses |-> e] :
        s \in SeqsUpTo(SyncLevels, MaxSync),
        e \in {None} \cup {Some(n) : n \in 0..MaxPulses}}
    \cup
    {[fn |-> "time_to_sample", timestamp |-> t, fs |-> f, is_t1 |-> a,
      is_t2 |-> b, cast |-> c] :
        t \in Timestamps, f \in FsChoices, a \in BOOLEAN, b \in BOOLEAN,
        c \in CastOutcomes}
    \cup
    {[fn |-> "get_timestamps_stim_blocks", neudata |-> d, n_amp_tested |-> n,
      pulses |-> p, time_stim |-> t, cast |-> c] :
        d \in NeuralData, n \in 0..MaxAmp, p \in 0..MaxPulses, t \in Durations,
        c \in CastOutcomes}

CallGetStimTimestamps ==
    /\ call.fn = "get_stim_timestamps" /\ ret = Pending
    /\ ret' = Returned(get_stim_timestamps(call.sync_ch, call.expected_pulses))
    /\ UNCHANGED <<call, sessionvars>>

CallTimeToSample ==
    /\ call.fn = "time_to_sample" /\ ret = Pending
    /\ ret' = Returned(time_to_sample(call.timestamp, call.fs, call.is_t1,
                                      call.is_t2, call.cast))
    /\ UNCHANGED <<call, sessionvars>>

CallGetTimestampsStimBlocks ==
    /\ call.fn = "get_timestamps_stim_blocks" /\ ret = Pending
    /\ ret' = get_timestamps_stim_blocks(call.neudata, call.n_amp_tested,
                                         call.pulses, call.time_stim, call.cast)
    /\ UNCHANGED <<call, sessionvars>>

InitStim == call \in StimCalls /\ ret = Pending /\ NoSession
NextStim == CallGetStimTimestamps \/ CallTimeToSample \/ CallGetTimestampsStimBlocks
SpecStim == InitStim /\ [][NextStim]_vars

----------------------------------------------------------------------------
(* Calls of the segmentation functions.                                    *)

ParseCalls ==
    {[fn |-> "parse_raw", raw |-> r, stimulation_idxs |-> o,
      samples_before_stim |-> b, skip_one |-> k, min_len_chunk |-> m] :
        r \in RawSignals, o \in Onsets, b \in 0..MaxBefore, k \in BOOLEAN,
        m \in 0..MaxMinLen}
    \cup
    {[fn |-> "trim_equal_len", raw |-> r] :
        r \in SeqsUpTo(SeqsUpTo({0, 1}, 2), 3)
               \cup {<<<<1, 2, 3, 4>>, <<1, 2>>, <<1, 2, 3>>>>}}
    \cup
    {[fn |-> "running_mean", x |-> x, n |-> n] :
        x \in SeqsUpTo(SignalLevels, MaxSignal), n \in 0..MaxWindow}

CallParseRaw ==
    /\ call.fn = "parse_raw" /\ ret = Pending
    /\ ret' = parse_raw(call.raw, call.stimulation_idxs, call.samples_before_stim,
                        call.skip_one, call.min_len_chunk)
    /\ UNCHANGED <<call, sessionvars>>

CallRunningMean ==
    /\ call.fn = "running_mean" /\ ret = Pending
    /\ ret' = running_mean(call.x, call.n)
    /\ UNCHANGED <<call, sessionvars>>

CallTrimEqualLen ==
    /\ call.fn = "trim_equal_len" /\ ret = Pending
    /\ ret' = Returned(trim_equal_len(call.raw))
    /\ UNCHANGED <<call, sessionvars>>

InitParse == call \in ParseCalls /\ ret = Pending /\ NoSession
NextParse == CallParseRaw \/ CallTrimEqualLen \/ CallRunningMean
SpecParse == InitParse /\ [][NextParse]_vars

----------------------------------------------------------------------------
(* Calls of the amplitude averaging.                                       *)

\* Chunk matrices of one or two columns, and the amplitudes tested.
MatrixLevels == {0, 3}
RowWidths == {1, 2}
Matrices ==
    {[width |-> w, rows |-> r] :
        w \in RowWidths, r \in SeqsUpTo(SeqsUpTo(MatrixLevels, 2), MaxRows)}
TestedAmplitudes == {Ramp(n) : n \in 0..MaxTested}

AverageCalls ==
    {[fn |-> "get_average_amplitudes", parsed_raw |-> m, tested_amplitudes |-> a,
      pulses_number |-> p] :
        m \in {x \in Matrices : \A k \in 1..Len(x.rows) : Len(x.rows[k]) = x.width},
        a \in TestedAmplitudes,
        p \in {None} \cup {Some(n) : n \in 0..MaxPulsesNumber}}

CallGetAverageAmplitudes ==
    /\ call.fn = "get_average_amplitudes" /\ ret = Pending
    /\ ret' = get_average_amplitudes(call.parsed_raw, call.tested_amplitudes,
                                     call.pulses_number)
    /\ UNCHANGED <<call, sessionvars>>

InitAverage == call \in AverageCalls /\ ret = Pending /\ NoSession
NextAverage == CallGetAverageAmplitudes
SpecAverage == InitAverage /\ [][NextAverage]_vars

----------------------------------------------------------------------------
(* Calls of the index searches.                                            *)

DataArrays == SeqsUpTo(DataValues, MaxData)
              \cup {<<Num(1), Num(5), Num(10)>>, <<Num(1), NaN, Num(5)>>}
DataPoints == (-MaxVal..MaxVal) \cup {4}

\* The data of find_closest_smaller_index, and the spec's two examples.
SmallerValues == {Fin(v) : v \in -MaxVal..MaxVal} \cup {PosInf, NegInf, NotANumber}
SmallerArrays == SeqsUpTo(SmallerValues, MaxData)
                 \cup {<<Fin(1), Fin(3), Fin(7)>>, <<Fin(10), Fin(20)>>}
SmallerPoints == SmallerValues \cup {Fin(5)}

SearchCalls ==
    {[fn |-> "find_closest_index", data |-> d, datapoint |-> x] :
        d \in DataArrays, x \in DataPoints}
SmallerCalls ==
    {[fn |-> "find_closest_smaller_index", data |-> d, datapoint |-> x] :
        d \in SmallerArrays, x \in SmallerPoints}

CallFindClosestIndex ==
    /\ call.fn = "find_closest_index" /\ ret = Pending
    /\ ret' = find_closest_index(call.data, call.datapoint)
    /\ UNCHANGED <<call, sessionvars>>

CallFindClosestSmallerIndex ==
    /\ call.fn = "find_closest_smaller_index" /\ ret = Pending
    /\ ret' = find_closest_smaller_index(call.data, call.datapoint)
    /\ UNCHANGED <<call, sessionvars>>

InitSearch == call \in SearchCalls /\ ret = Pending /\ NoSession
NextSearch == CallFindClosestIndex
SpecSearch == InitSearch /\ [][NextSearch]_vars

InitSmaller == call \in SmallerCalls /\ ret = Pending /\ NoSession
NextSmaller == CallFindClosestSmallerIndex
SpecSmaller == InitSmaller /\ [][NextSmaller]_vars

----------------------------------------------------------------------------
(* neurokin/experiments/neural_states_correlates.py: the session.          *)

\* A trial is <<date, subject, condition, run>>; its run directory is
\* experiment_path/date/subject/run, whatever the condition.
AllTrials == <<
    <<"230101", "NWE00130", "baseline", "01">>,
    <<"230101", "NWE00130", "stim", "02">>,
    <<"230101", "NWE00131", "baseline", "01">>,
    <<"230101", "NWE00131", "stim", "02">> >>
RunPath(trial) == <<trial[1], trial[2], trial[4]>>
RunPaths == {RunPath(AllTrials[i]) : i \in 1..Len(AllTrials)}

\* A run directory: absent, or the names of the files in it.
Absent == [exists |-> FALSE, files |-> <<>>]
Dir(files) == [exists |-> TRUE, files |-> files]
Directories == {Absent, Dir(<<"video.avi">>), Dir(<<"video.avi", "events_01.csv">>)}
\* re.match(r"(?i)[a-z_-]+[0-9]{1,3}.csv", fname), on the names above
MatchesEventsCsv(fname) == fname = "events_01.csv"

\* The experiment structures: the trials of AllTrials at ascending positions.
RECURSIVE Pick(_, _)
Pick(S, seq) ==
    IF S = {} THEN <<>> ELSE <<seq[MinOf(S)]>> \o Pick(S \ {MinOf(S)}, seq)
Structures ==
    {Pick(S, AllTrials) : S \in {T \in SUBSET (1..Len(AllTrials)) :
                                     Cardinality(T) <= MaxTrials}}

\* get_runs_list: the declared trials, those of a skipped subject or a skipped
\* condition left out.
get_runs_list(structure, skipped_subjects, skipped_conditions) ==
    SelectSeq(structure, LAMBDA trial : /\ trial[2] \notin skipped_subjects
                                        /\ trial[3] \notin skipped_conditions)

\* get_events_dict: the timestamp lists of the events file, one per event type.
get_events_dict(event_path) ==
    [gait |-> <<"gait", event_path>>,
     nlm_rest |-> <<"nlm_rest", event_path>>,
     nlm_active |-> <<"nlm_active", event_path>>,
     fog_rest |-> <<"fog_rest", event_path>>,
     fog_active |-> <<"fog_active", event_path>>]

\* One pass of the loop of create_events_dataset over the trial at hand:
\* st is [trial_data, stdout, raised], the rows built, the lines printed and
\* the exception that has escaped, if any.
events_step(st, trial, verbose) ==
    LET run_path == RunPath(trial)
        out1 == IF verbose THEN Append(st.stdout, <<"Currently processing", trial>>)
                ELSE st.stdout
        found == SelectSeq(disk[run_path].files, MatchesEventsCsv)
    IN  IF ~disk[run_path].exists
        THEN \* os.listdir raises FileNotFoundError, which is caught
             [st EXCEPT !.stdout = Append(out1, <<"No .csv events File Found For", trial>>)]
        ELSE IF Len(found) = 0
        THEN \* [...][0] on an empty list: IndexError, which is not caught
             [st EXCEPT !.stdout = out1, !.raised = "IndexError"]
        ELSE
          LET events_dict == get_events_dict(<<run_path, found[1]>>)
              events == <<events_dict.gait, events_dict.nlm_rest,
                          events_dict.nlm_active, events_dict.fog_rest,
                          events_dict.fog_active>>
          IN  [st EXCEPT !.stdout = out1,
                         !.trial_data = Append(st.trial_data, <<trial, events>>)]

RECURSIVE events_loop(_, _, _)
events_loop(st, trial_list, verbose) ==
    IF st.raised # "none" \/ trial_list = <<>> THEN st
    ELSE events_loop(events_step(st, Head(trial_list), verbose), Tail(trial_list),
                     verbose)

\* create_events_dataset assigning the table inside the loop: what was built
\* before an exception stays in events_dataset.
create_events_dataset_partial(verbose) ==
    LET trial_list == get_runs_list(experiment_structure, skip_subjects,
                                    skip_conditions)
        end == events_loop([trial_data |-> <<>>, stdout |-> <<>>, raised |-> "none"],
                           trial_list, verbose)
    IN  /\ method' = "create_events_dataset"
        /\ saved' = <<>>
        /\ stdout' = end.stdout
        /\ raised' = end.raised
        /\ events_dataset' = Some(end.trial_data)
        /\ UNCHANGED <<experiment_structure, skip_subjects, skip_conditions, disk,
                       neural, fnvars, kinvars>>

create_events_dataset(verbose) ==
    LET trial_list == get_runs_list(experiment_structure, skip_subjects,
                                    skip_conditions)
        end == events_loop([trial_data |-> <<>>, stdout |-> <<>>, raised |-> "none"],
                           trial_list, verbose)
    IN  /\ method' = "create_events_dataset"
        /\ saved' = <<>>
        /\ stdout' = end.stdout
        /\ raised' = end.raised
        /\ events_dataset' = IF end.raised = "none" THEN Some(end.trial_data)
                             ELSE events_dataset
        /\ UNCHANGED <<experiment_structure, skip_subjects, skip_conditions, disk,
                       neural, fnvars, kinvars>>

CreateEventsDataset == \E verbose \in BOOLEAN : create_events_dataset(verbose)

\* An attribute of the session: never assigned, or assigned the value v.
Unassigned == [assigned |-> FALSE, value |-> <<>>]
Assigned(v) == [assigned |-> TRUE, value |-> v]

\* A dict as its items, in insertion order.
HasKey(d, k) == \E i \in 1..Len(d) : d[i][1] = k
Lookup(d, k) == d[CHOOSE i \in 1..Len(d) : d[i][1] = k][2]

\* __init__: the attributes of the neural passes.  The three annotated without
\* a value are not created; raw_neural_correlates_dict is read by
\* create_psd_dataset and save_dataset, events_dataset_dict by save_dataset,
\* and no method assigns either.
NewNeuralAttributes ==
    [stream_names |-> Assigned(<<>>),
     ch_of_interest |-> Assigned(<<>>),
     fs |-> Assigned(None),
     freqs |-> Unassigned,
     raw_neural_correlates_dataset |-> Unassigned,
     raw_neural_correlates_dict |-> Unassigned,
     events_dataset_dict |-> Unassigned,
     psds_correlates_dict |-> Unassigned]

\* The rows of the events table for one trial.
events_of_trial(dataset, trial) == SelectSeq(dataset, LAMBDA row : row[1] = trial)

\* get_neural_correlates_dict: per event type the raw slices cut at the
\* trial's events (none for a trial without a row), and the sampling rate of
\* the recording, None when there is no recording to read.
get_neural_correlates_dict(run_path, channel_of_interest, events_df) ==
    [raw_neural_correlate |->
        [k \in 1..5 |->
            [r \in 1..Len(events_df) |-> <<"raw", channel_of_interest, events_df[r][2][k]>>]],
     fs |-> IF disk[run_path].exists THEN Some(<<"fs", run_path>>) ELSE None]

\* One pass of the loop of create_raw_neural_dataset: st is
\* [trial_neural_data, stdout, raised, fs].
raw_neural_step(st, trial, ch_of_interest, verbose) ==
    IF ~HasKey(ch_of_interest, trial[2])
    THEN \* self.ch_of_interest[subject]: KeyError
         [st EXCEPT !.raised = "KeyError"]
    ELSE
      LET channel_of_interest == Lookup(ch_of_interest, trial[2])
          neural_event_df == events_of_trial(events_dataset[1], trial)
          got == get_neural_correlates_dict(RunPath(trial), channel_of_interest,
                                            neural_event_df)
          events == got.raw_neural_correlate
      IN  [trial_neural_data |-> Append(st.trial_neural_data, <<trial, events>>),
           stdout |-> IF verbose THEN Append(st.stdout, <<"Currently processing", trial>>)
                      ELSE st.stdout,
           raised |-> st.raised,
           fs |-> IF got.fs # None THEN got.fs ELSE st.fs]

RECURSIVE raw_neural_loop(_, _, _, _)
raw_neural_loop(st, trial_list, ch_of_interest, verbose) ==
    IF st.raised # "none" \/ trial_list = <<>> THEN st
    ELSE raw_neural_loop(raw_neural_step(st, Head(trial_list), ch_of_interest, verbose),
                         Tail(trial_list), ch_of_interest, verbose)

create_raw_neural_dataset(stream_names, ch_of_interest, verbose) ==
    IF events_dataset = None
    THEN /\ method' = "create_raw_neural_dataset"
         /\ saved' = <<>>
         /\ stdout' = <<"Please create or load an events dictionary first">>
         /\ raised' = "none"
         /\ UNCHANGED <<neural, events_dataset, experiment_structure, skip_subjects,
                        skip_conditions, disk, fnvars, kinvars>>
    ELSE
      LET trial_list == get_runs_list(experiment_structure, skip_subjects,
                                      skip_conditions)
          end == raw_neural_loop([trial_neural_data |-> <<>>, stdout |-> <<>>,
                                  raised |-> "none", fs |-> neural.fs.value],
                                 trial_list, ch_of_interest, verbose)
      IN  /\ method' = "create_raw_neural_dataset"
          /\ saved' = <<>>
          /\ stdout' = end.stdout
          /\ raised' = end.raised
          /\ neural' = [neural EXCEPT
                 !.stream_names = Assigned(stream_names),
                 !.ch_of_interest = Assigned(ch_of_interest),
                 !.fs = Assigned(end.fs),
                 !.raw_neural_correlates_dataset =
                     IF end.raised = "none" THEN Assigned(end.trial_neural_data) ELSE @]
          /\ UNCHANGED <<events_dataset, experiment_structure, skip_subjects,
                         skip_conditions, disk, fnvars, kinvars>>

\* get_psd_dict: the spectra of a trial's slices, and the frequency vector,
\* None when the trial has no slice to transform.
get_psd_dict(neural_dict, fs, nfft, noverlap) ==
    [psd |-> <<"psd", neural_dict, fs, nfft, noverlap>>,
     freqs |-> IF \A k \in 1..Len(neural_dict) : Len(neural_dict[k]) = 0
               THEN None ELSE Some(<<"freqs", fs, nfft>>)]

\* The loops of create_psd_dataset over a dataset given as its items
\* <<<<condition, date, animal, run>>, neural_dict>> in iteration order: st is
\* [dataset_psd, freqs, stdout].
RECURSIVE psd_loop(_, _, _, _, _)
psd_loop(st, items, nfft, nov, verbose) ==
    IF items = <<>> THEN st
    ELSE
      LET key == Head(items)[1]
          got == get_psd_dict(Head(items)[2], neural.fs.value, nfft, nov)
      IN  psd_loop([dataset_psd |-> Append(st.dataset_psd, <<key, got.psd>>),
                    freqs |-> IF got.freqs # None THEN got.freqs ELSE st.freqs,
                    stdout |-> IF verbose
                               THEN Append(st.stdout, <<"Currently processing", key>>)
                               ELSE st.stdout],
                   Tail(items), nfft, nov, verbose)

\* The first statement reads self.raw_neural_correlates_dict: on a session
\* where nothing assigned it, an AttributeError.
create_psd_dataset(nfft, nov, verbose) ==
    /\ method' = "create_psd_dataset"
    /\ saved' = <<>>
    /\ IF ~neural.raw_neural_correlates_dict.assigned
       THEN /\ raised' = "AttributeError"
            /\ stdout' = <<>>
            /\ UNCHANGED neural
       ELSE IF neural.raw_neural_correlates_dict.value = None
       THEN /\ raised' = "none"
            /\ stdout' = <<"Please create or load a raw neural dictionary first">>
            /\ UNCHANGED neural
       ELSE
         LET end == psd_loop([dataset_psd |-> <<>>, freqs |-> None, stdout |-> <<>>],
                             neural.raw_neural_correlates_dict.value[1], nfft, nov,
                             verbose)
         IN  /\ raised' = "none"
             /\ stdout' = end.stdout
             /\ neural' = [neural EXCEPT
                    !.freqs = Assigned(end.freqs),
                    !.psds_correlates_dict = Assigned(end.dataset_psd)]
    /\ UNCHANGED <<events_dataset, experiment_structure, skip_subjects,
                   skip_conditions, disk, fnvars, kinvars>>

CreatePsdDataset ==
    \E verbose \in BOOLEAN : create_psd_dataset(256, 128, verbose)

ChannelMaps == {<<<<"NWE00130", 1>>, <<"NWE00131", 2>>>>, <<<<"NWE00130", 1>>>>}
CreateRawNeuralDataset ==
    \E ch_of_interest \in ChannelMaps, verbose \in BOOLEAN :
        create_raw_neural_dataset(<<"LFP1">>, ch_of_interest, verbose)

\* save_data(data, filename): one more file written by the call.
save_data(written, data, filename) == Append(written, <<data, filename>>)

\* The save_data calls of save_dataset in turn, each reading an attribute of
\* the session first: st is [saved, raised], writes the <<attribute,
\* filename>> pairs still to do.
RECURSIVE save_loop(_, _)
save_loop(st, writes) ==
    IF st.raised # "none" \/ writes = <<>> THEN st
    ELSE
      LET attribute == neural[Head(writes)[1]]
      IN  IF ~attribute.assigned
          THEN \* self.<attribute>: AttributeError
               [st EXCEPT !.raised = "AttributeError"]
          ELSE save_loop([st EXCEPT !.saved = save_data(st.saved, attribute.value,
                                                        Head(writes)[2])],
                         Tail(writes))

accepted_datasets ==
    <<"events_dataset", "raw_neural_correlates_dataset", "psd_neural_correlates_dataset">>

save_dataset(dataset, filename) ==
    LET writes ==
            (IF dataset = "events_dataset"
             THEN <<<<"events_dataset_dict", filename>>>> ELSE <<>>)
            \o (IF dataset = "raw_neural_correlates_dataset"
                THEN <<<<"fs", "fs">>, <<"raw_neural_correlates_dict", filename>>>>
                ELSE <<>>)
            \o (IF dataset = "psd_neural_correlates_dataset"
                THEN <<<<"psds_correlates_dict", filename>>, <<"freqs", "freqs">>>>
                ELSE <<>>)
        end == IF ~(\E i \in 1..Len(accepted_datasets) : accepted_datasets[i] = dataset)
               THEN [saved |-> <<>>, raised |-> "ValueError"]
               ELSE save_loop([saved |-> <<>>, raised |-> "none"], writes)
    IN  /\ method' = "save_dataset"
        /\ call' = [fn |-> "save_dataset", dataset |-> dataset, filename |-> filename]
        /\ stdout' = <<>>
        /\ raised' = end.raised
        /\ saved' = end.saved
        /\ UNCHANGED <<ret, neural, events_dataset, experiment_structure, skip_subjects,
                       skip_conditions, disk, kinvars>>

DatasetNames ==
    {"events_dataset", "raw_neural_correlates_dataset", "psd_neural_correlates_dataset",
     "psds_correlates_dict"}
FileNames == {"session"}
SaveDataset ==
    \E dataset \in DatasetNames, filename \in FileNames : save_dataset(dataset, filename)

\* __init__: the session as constructed, over an experiment folder.
InitSession ==
    /\ call = [fn |-> "none"] /\ ret = Pending
    /\ NoKinematicRun
    /\ neural = NewNeuralAttributes
    /\ experiment_structure \in Structures
    /\ skip_subjects \in {{}, {"NWE00131"}}
    /\ skip_conditions \in {{}, {"stim"}}
    /\ disk \in [RunPaths -> Directories]
    /\ events_dataset = None
    /\ method = "none"
    /\ stdout = <<>>
    /\ raised = "none"
    /\ saved = <<>>

NextSession ==
    CreateEventsDataset \/ CreateRawNeuralDataset \/ CreatePsdDataset \/ SaveDataset
SpecSession == InitSession /\ [][NextSession]_vars

----------------------------------------------------------------------------
(* neurokin/kinematic_data.py: the KinematicDataRun.                       *)

\* x in s, for a list s
PyIn(x, s) == \E i \in 1..Len(s) : s[i] = x
\* set(a).issubset(s)
IsSubset(a, s) == \A i \in 1..Len(a) : PyIn(a[i], s)

\* pd.DataFrame(): the markers table before anything is loaded.
\* A table is its three column levels: the name at the first (scorer), the
\* bodyparts and the coords of each; and the corrections and smoothing passes
\* applied to its values.
EmptyFrame ==
    [loaded |-> FALSE, bodyparts |-> <<>>, scorer |-> "", coords |-> <<>>,
     corrections |-> <<>>, smoothed |-> <<>>]
\* import_c3d: the table of the file's markers under the first level
\* "scorer", three axes per marker, no correction applied.
import_c3d(file) ==
    [loaded |-> TRUE, bodyparts |-> file, scorer |-> "scorer",
     coords |-> <<"x", "y", "z">>, corrections |-> <<>>, smoothed |-> <<>>]
\* DeepLabCut tables, the network's name at their first level: of a 3-D and
\* of a 2-D tracking.
DeepLabCutFrame(coords) ==
    [loaded |-> TRUE, bodyparts |-> <<"lmtp", "rmtp">>, scorer |-> "DLC_resnet50",
     coords |-> coords, corrections |-> <<>>, smoothed |-> <<>>]
DeepLabCutFrames ==
    {DeepLabCutFrame(<<"x", "y", "z">>), DeepLabCutFrame(<<"x", "y", "likelihood">>)}
\* df.columns.tolist(): the column labels (scorer, bodypart, coord), bodypart
\* by bodypart.
RECURSIVE ColumnLabelsOf(_, _, _)
ColumnLabelsOf(scorer, bodyparts, coords) ==
    IF bodyparts = <<>> THEN <<>>
    ELSE [k \in 1..Len(coords) |-> <<scorer, Head(bodyparts), coords[k]>>]
         \o ColumnLabelsOf(scorer, Tail(bodyparts), coords)
columns_tolist(df) == ColumnLabelsOf(df.scorer, df.bodyparts, df.coords)
\* dlc2kinematics smooth_trajectory: a new table, the values filtered.
smooth_trajectory(df, bodyparts, filter_window, order) ==
    [df EXCEPT !.smoothed = Append(@, <<bodyparts, filter_window, order>>)]
\* Index.unique(): the first occurrence of each value, in order.
RECURSIVE PyUnique(_)
PyUnique(a) ==
    IF a = <<>> THEN <<>>
    ELSE <<Head(a)>> \o PyUnique(SelectSeq(Tail(a), LAMBDA x : x # Head(a)))
\* shift_correct, tilt_correct: the table with the correction applied.
shift_correct(df, reference_marker, to_shift) ==
    [df EXCEPT !.corrections = Append(@, <<"shift", reference_marker, to_shift>>)]
tilt_correct(df, reference_marker, to_tilt) ==
    [df EXCEPT !.corrections = Append(@, <<"tilt", reference_marker, to_tilt>>)]
\* self.markers_df[self.scorer][marker][axis]: the marker's trace, its height
\* above the ground level per frame.
Trajectory(marker) ==
    IF marker = "lmtp" THEN <<0, 0, 1, 2, 0, 0, 2, 1, 0>>
    ELSE IF marker = "rmtp" THEN <<2, 0, 0, 0, 1, 2, 0, 0, 2>>
    ELSE <<1, 1, 1, 1, 1, 1, 1, 1, 1>>

\* The low-pass filter of get_toe_lift_landing: each frame summed with the
\* one before it (the first with itself), which flattens a one-frame dip.
lowpass_array(y) == [i \in 1..Len(y) |-> y[i] + (IF i = 1 THEN y[1] ELSE y[i - 1])]

\* The frames (0-based) at which the filtered trace leaves the ground level,
\* and those at which it is back on it.
lift_frames(f) == {i \in 0..(Len(f) - 2) : f[i + 1] <= 0 /\ f[i + 2] > 0}
land_frames(f) == {j \in 1..(Len(f) - 1) : f[j] > 0 /\ f[j + 1] <= 0}
\* A set of frames as an ascending series.
RECURSIVE SortedFrames(_)
SortedFrames(S) ==
    IF S = {} THEN <<>> ELSE <<MinOf(S)>> \o SortedFrames(S \ {MinOf(S)})
\* The first frame strictly between lift and land at which the filtered
\* trace is highest.
peak_frame(f, lift, land) ==
    CHOOSE m \in (lift + 1)..(land - 1) :
        /\ \A k \in (lift + 1)..(land - 1) : f[k + 1] <= f[m + 1]
        /\ \A k \in (lift + 1)..(m - 1) : f[k + 1] < f[m + 1]

\* get_toe_lift_landing with the boundary cycles kept: every lift and every
\* land of the trace is reported.
get_toe_lift_landing_keep_bounds(y) ==
    LET f == lowpass_array(y)
        lifts == SortedFrames(lift_frames(f))
        lands == SortedFrames(land_frames(f))
        n == Min2(Len(lifts), Len(lands))
    IN  [lift |-> lifts, land |-> lands,
         max |-> [k \in 1..n |->
                     IF lifts[k] + 1 < lands[k] THEN peak_frame(f, lifts[k], lands[k])
                     ELSE lifts[k]]]

\* get_toe_lift_landing: the lift, land and max frames of a trace.  A land
\* with no lift before it and a lift with no land after it are dropped.
get_toe_lift_landing(y) ==
    LET f == lowpass_array(y)
        lifts == {i \in lift_frames(f) : \E j \in land_frames(f) : j > i}
        lands == {j \in land_frames(f) : \E i \in lift_frames(f) : i < j}
        lift == SortedFrames(lifts)
        land == SortedFrames(lands)
    IN  [lift |-> lift, land |-> land,
         max |-> [k \in 1..Len(lift) |-> peak_frame(f, lift[k], land[k])]]

\* A method's outcome: the object as the call leaves it, and what the call
\* returned or raised.
Outcome(self, out) == [self |-> self, out |-> out]
\* A ValueError whose message lists the names `listed'.
ValueErrorListing(why, listed) == Raised("ValueError", why) @@ [listed |-> listed]

\* __init__
NewKinematicDataRun ==
    [markers_df |-> EmptyFrame, scorer |-> "scorer", bodyparts |-> None,
     fs |-> Unassigned,
     left_mtp_lift |-> None, left_mtp_land |-> None, left_mtp_max |-> None,
     right_mtp_lift |-> None, right_mtp_land |-> None, right_mtp_max |-> None]

\* The tilt half of load_kinematics, on the object as the shift half left it.
load_kinematics_tilt(self, correct_tilt, to_tilt, tilt_reference_marker) ==
    IF ~correct_tilt THEN Outcome(self, Returned(None))
    ELSE IF ~PyIn(tilt_reference_marker, self.markers_df.bodyparts)
    THEN Outcome(self, ValueErrorListing("The tilt reference marker is not among the markers",
                                         columns_tolist(self.markers_df)))
    ELSE IF ~IsSubset(to_tilt, self.markers_df.bodyparts)
    THEN Outcome(self, ValueErrorListing("Some or all columns to tilt are not among the markers",
                                         columns_tolist(self.markers_df)))
    ELSE Outcome([self EXCEPT !.markers_df =
                      tilt_correct(@, tilt_reference_marker, to_tilt)],
                 Returned(None))

\* The message of the first check adds a list to a string, which raises a
\* TypeError in place of the ValueError.
load_kinematics(self, file, correct_shift, correct_tilt, to_shift, to_tilt, shift_reference_marker, tilt_reference_marker) ==
    LET loaded == [self EXCEPT !.markers_df = import_c3d(file),
                               !.fs = Assigned(<<"fs", file>>)]
    IN  IF ~correct_shift
        THEN load_kinematics_tilt(loaded, correct_tilt, to_tilt, tilt_reference_marker)
        ELSE IF ~PyIn(shift_reference_marker, loaded.markers_df.bodyparts)
        THEN Outcome(loaded, Raised("TypeError", "can only concatenate str (not list) to str"))
        ELSE IF ~IsSubset(to_shift, loaded.markers_df.bodyparts)
        THEN Outcome(loaded,
                     ValueErrorListing("Some or all columns to shift are not among the markers",
                                       columns_tolist(loaded.markers_df)))
        ELSE load_kinematics_tilt(
                 [loaded EXCEPT !.markers_df =
                      shift_correct(@, shift_reference_marker, to_shift)],
                 correct_tilt, to_tilt, tilt_reference_marker)

\* compute_gait_cycles_bounds computing the left foot before it checks the
\* right marker
compute_gait_cycles_bounds_left_first(self, left_marker, right_marker) ==
    IF ~self.markers_df.loaded
    THEN Outcome(self, Raised("KeyError", "Requested level (bodyparts) does not match index name"))
    ELSE IF ~PyIn(left_marker, self.markers_df.bodyparts)
    THEN Outcome(self, ValueErrorListing("The left reference marker is not among the markers",
                                         self.markers_df.bodyparts))
    ELSE IF self.scorer # self.markers_df.scorer
    THEN Outcome(self, Raised("KeyError", self.scorer))
    ELSE IF ~PyIn("z", self.markers_df.coords)
    THEN Outcome(self, Raised("KeyError", "z"))
    ELSE IF ~self.fs.assigned
    THEN Outcome(self, Raised("AttributeError", "fs"))
    ELSE
      LET left == get_toe_lift_landing(Trajectory(left_marker))
          half == [self EXCEPT !.left_mtp_lift = Some(left.lift),
                               !.left_mtp_land = Some(left.land),
                               !.left_mtp_max = Some(left.max)]
      IN  IF ~PyIn(right_marker, self.markers_df.bodyparts)
          THEN Outcome(half, ValueErrorListing("The right reference marker is not among the markers",
                                               self.markers_df.bodyparts))
          ELSE
            LET right == get_toe_lift_landing(Trajectory(right_marker))
            IN  Outcome([half EXCEPT !.right_mtp_lift = Some(right.lift),
                                     !.right_mtp_land = Some(right.land),
                                     !.right_mtp_max = Some(right.max)],
                        Returned(None))

\* get_c3d_compliance(smooth, filter_window, order): the table, smoothed when
\* asked, its unique bodyparts and the name at its first column level are
\* stored in the object.  On the empty table of __init__ get_level_values
\* raises a KeyError.
get_c3d_compliance(self, smooth, filter_window, order) ==
    IF ~self.markers_df.loaded
    THEN Outcome(self, Raised("KeyError", "Requested level (bodyparts) does not match index name"))
    ELSE
      LET df_ == self.markers_df
          bodyparts == PyUnique(df_.bodyparts)
          scorer == df_.scorer
          smoothed == IF smooth
                      THEN smooth_trajectory(df_, bodyparts, filter_window, order)
                      ELSE df_
      IN  IF Len(df_.bodyparts) = 0
          THEN Outcome(self, Raised("IndexError", "index 0 is out of bounds"))
          ELSE Outcome([self EXCEPT !.markers_df = smoothed,
                                    !.bodyparts = Some(bodyparts),
                                    !.scorer = scorer],
                       Returned(None))

\* On the empty table of __init__ the columns have no level "bodyparts" and
\* get_level_values raises a KeyError.  The arguments of the first
\* get_toe_lift_landing are evaluated next: self.markers_df[self.scorer]
\* raises a KeyError when self.scorer is not the name at the table's first
\* level, [axis] one when the table has no z, and self.fs an AttributeError
\* on a run that load_kinematics never assigned it to.
compute_gait_cycles_bounds(self, left_marker, right_marker) ==
    IF ~self.markers_df.loaded
    THEN Outcome(self, Raised("KeyError", "Requested level (bodyparts) does not match index name"))
    ELSE IF ~PyIn(left_marker, self.markers_df.bodyparts)
    THEN Outcome(self, ValueErrorListing("The left reference marker is not among the markers",
                                         self.markers_df.bodyparts))
    ELSE IF ~PyIn(right_marker, self.markers_df.bodyparts)
    THEN Outcome(self, ValueErrorListing("The right reference marker is not among the markers",
                                         self.markers_df.bodyparts))
    ELSE IF self.scorer # self.markers_df.scorer
    THEN Outcome(self, Raised("KeyError", self.scorer))
    ELSE IF ~PyIn("z", self.markers_df.coords)
    THEN Outcome(self, Raised("KeyError", "z"))
    ELSE IF ~self.fs.assigned
    THEN Outcome(self, Raised("AttributeError", "fs"))
    ELSE
      LET left == get_toe_lift_landing(Trajectory(left_marker))
          right == get_toe_lift_landing(Trajectory(right_marker))
      IN  Outcome([self EXCEPT !.left_mtp_lift = Some(left.lift),
                               !.left_mtp_land = Some(left.land),
                               !.left_mtp_max = Some(left.max),
                               !.right_mtp_lift = Some(right.lift),
                               !.right_mtp_land = Some(right.land),
                               !.right_mtp_max = Some(right.max)],
                  Returned(None))

\* The markers a file may hold and the names a caller may pass: "nose" is in no
\* file.
MarkerFiles == {<<"lmtp">>, <<"lmtp", "rmtp">>, <<"lmtp", "rmtp", "hip">>}
MarkerNames == {"lmtp", "rmtp", "nose"}
MarkerLists == {<<"lmtp">>, <<"nose">>}

LoadKinematics ==
    \E correct_shift, correct_tilt \in BOOLEAN, to_shift, to_tilt \in MarkerLists,
       shift_reference_marker, tilt_reference_marker \in {"lmtp", "nose"} :
        LET end == load_kinematics(kinematic_run, c3d_file, correct_shift, correct_tilt,
                                   to_shift, to_tilt, shift_reference_marker,
                                   tilt_reference_marker)
        IN  /\ call' = [fn |-> "load_kinematics", correct_shift |-> correct_shift,
                        correct_tilt |-> correct_tilt, to_shift |-> to_shift,
                        to_tilt |-> to_tilt,
                        shift_reference_marker |-> shift_reference_marker,
                        tilt_reference_marker |-> tilt_reference_marker]
            /\ ret' = end.out
            /\ kinematic_run' = end.self
            /\ UNCHANGED <<c3d_file, experiment_structure, skip_subjects,
                           skip_conditions, disk, events_dataset, method, stdout,
                           raised, neural, saved>>

ComputeGaitCyclesBounds ==
    \E left_marker, right_marker \in MarkerNames :
        LET end == compute_gait_cycles_bounds(kinematic_run, left_marker, right_marker)
        IN  /\ call' = [fn |-> "compute_gait_cycles_bounds",
                        left_marker |-> left_marker, right_marker |-> right_marker]
            /\ ret' = end.out
            /\ kinematic_run' = end.self
            /\ UNCHANGED <<c3d_file, experiment_structure, skip_subjects,
                           skip_conditions, disk, events_dataset, method, stdout,
                           raised, neural, saved>>

\* get_c3d_compliance with the default filter_window and order.
GetC3dCompliance ==
    \E smooth \in BOOLEAN :
        LET end == get_c3d_compliance(kinematic_run, smooth, 3, 1)
        IN  /\ smooth => Len(kinematic_run.markers_df.smoothed) < MaxSmooth
            /\ call' = [fn |-> "get_c3d_compliance", smooth |-> smooth]
            /\ ret' = end.out
            /\ kinematic_run' = end.self
            /\ UNCHANGED <<c3d_file, experiment_structure, skip_subjects,
                           skip_conditions, disk, events_dataset, method, stdout,
                           raised, neural, saved>>

\* The run as constructed, or as constructed and handed a DeepLabCut table,
\* the table get_c3d_compliance is written for.
InitKinematics ==
    /\ call = [fn |-> "none"] /\ ret = Pending
    /\ c3d_file \in MarkerFiles
    /\ kinematic_run \in
          {NewKinematicDataRun}
          \cup {[NewKinematicDataRun EXCEPT !.markers_df = df] : df \in DeepLabCutFrames}
    /\ neural = <<>>
    /\ experiment_structure = <<>>
    /\ skip_subjects = {}
    /\ skip_conditions = {}
    /\ disk = <<>>
    /\ events_dataset = None
    /\ method = "none"
    /\ stdout = <<>>
    /\ raised = "none"
    /\ saved = <<>>
NextKinematics == LoadKinematics \/ GetC3dCompliance \/ ComputeGaitCyclesBounds
SpecKinematics == InitKinematics /\ [][NextKinematics]_vars

----------------------------------------------------------------------------
(* Calls of the gait segmentation on limb traces.                          *)

TraceLevels == {0, 1, 2}
GaitCalls ==
    {[fn |-> "get_toe_lift_landing", y |-> y] : y \in SeqsUpTo(TraceLevels, MaxTrace)}

CallGetToeLiftLanding ==
    /\ call.fn = "get_toe_lift_landing" /\ ret = Pending
    /\ ret' = Returned(get_toe_lift_landing(call.y))
    /\ UNCHANGED <<call, sessionvars>>

InitGait == call \in GaitCalls /\ ret = Pending /\ NoSession
NextGait == CallGetToeLiftLanding
SpecGait == InitGait /\ [][NextGait]_vars

----------------------------------------------------------------------------
(* Properties of get_stim_timestamps.                                      *)

Done(fn) == call.fn = fn /\ ret # Pending
Elements(s) == {s[i] : i \in 1..Len(s)}

\* The indices at which a signal rises above zero.
RisingEdges(sync) ==
    {i \in 0..(Len(sync) - 1) : sync[i + 1] > 0 /\ (i = 0 \/ sync[i] <= 0)}
\* The indices at which it falls back.
FallingEdges(sync) ==
    {i \in 1..(Len(sync) - 1) : sync[i + 1] <= 0 /\ sync[i] > 0}
\* A set of indices in ascending order.
RECURSIVE Ascending(_)
Ascending(S) ==
    IF S = {} THEN <<>> ELSE <<MinOf(S)>> \o Ascending(S \ {MinOf(S)})

\* C8: without expected_pulses, get_stim_timestamps returns, in strictly
\* increasing order, exactly the indices at which the signal rises above zero,
\* and never the index of a falling edge.
C8_RisingEdgesOnly ==
    (Done("get_stim_timestamps") /\ call.expected_pulses = None) =>
        /\ ret.raised = "none"
        /\ StrictlyIncreasing(ret.value)
        /\ Elements(ret.value) = RisingEdges(call.sync_ch)
        /\ Elements(ret.value) \cap FallingEdges(call.sync_ch) = {}

\* A signal above zero at its first and at its last sample, with a fall between.
C8_Witness ==
    /\ Done("get_stim_timestamps") /\ call.expected_pulses = None
    /\ call.sync_ch = <<1, 0, -1, 1, 1>>
    /\ ret.value = <<0, 3>>

\* C9: with expected_pulses N >= 0 the result is the first min(N, total) rising
\* edges: at most N entries, a prefix of the untrimmed result, and all the
\* edges when there are fewer than N.
C9_TrimToExpected ==
    (Done("get_stim_timestamps") /\ call.expected_pulses # None) =>
        LET N == call.expected_pulses[1]
            untrimmed == Ascending(RisingEdges(call.sync_ch))
        IN  /\ ret.raised = "none"
            /\ Len(ret.value) = Min2(N, Len(untrimmed))
            /\ ret.value = SubSeq(untrimmed, 1, Len(ret.value))

----------------------------------------------------------------------------
(* Properties of find_closest_index.                                       *)

HasNaN(data) == \E i \in 1..Len(data) : IsNaN(data[i])

\* C10: on non-empty data without not-a-number values, find_closest_index
\* returns an index whose element is at least as close to the point as every
\* other element.
C10_ClosestIndex ==
    (Done("find_closest_index") /\ Len(call.data) > 0 /\ ~HasNaN(call.data)) =>
        /\ ret.raised = "none"
        /\ ret.value \in 0..(Len(call.data) - 1)
        /\ \A j \in 1..Len(call.data) :
              Abs(call.data[ret.value + 1].v - call.datapoint)
                 <= Abs(call.data[j].v - call.datapoint)

\* The spec's example: data [1, 5, 10] and point 4 give index 1.
C10_Witness ==
    /\ Done("find_closest_index")
    /\ call.data = <<Num(1), Num(5), Num(10)>> /\ call.datapoint = 4
    /\ ret = Returned(1)

\* C11: whenever data holds a not-a-number value, at whatever position and
\* whether or not another element equals the point, find_closest_index raises
\* the ValueError about not-a-number input and returns no index.
C11_NaNRejected ==
    (Done("find_closest_index") /\ HasNaN(call.data)) =>
        /\ ret.raised = "ValueError"
        /\ ret.why = "The input array contains nan"

\* The spec's example [1, nan, 5], searched for the 1 it holds.
C11_Witness ==
    /\ Done("find_closest_index")
    /\ call.data = <<Num(1), NaN, Num(5)>> /\ call.datapoint = 1
    /\ ret.raised = "ValueError"

----------------------------------------------------------------------------
(* Properties of find_closest_smaller_index.                               *)

\* The 0-based indices of the elements strictly less than the point.
SmallerThanPoint == {i \in 0..(Len(call.data) - 1) : FLess(call.data[i + 1], call.datapoint)}

\* C12: when some element is strictly less than the point,
\* find_closest_smaller_index returns the index of such an element, one that
\* no other element strictly less than the point exceeds; when none is, it
\* returns 0.
C12_ClosestSmaller ==
    Done("find_closest_smaller_index") =>
        /\ ret.raised = "none"
        /\ IF SmallerThanPoint = {} THEN ret.value = 0
           ELSE /\ ret.value \in SmallerThanPoint
                /\ \A j \in SmallerThanPoint :
                      ~FLess(call.data[ret.value + 1], call.data[j + 1])

\* The same, where no distance to the point is infinite: the point is finite
\* or not-a-number, and no element is minus infinity.
C12_FiniteDistances ==
    (Done("find_closest_smaller_index") /\ call.datapoint.cls # "inf"
       /\ \A i \in 1..Len(call.data) : call.data[i] # NegInf)
        => C12_ClosestSmaller

----------------------------------------------------------------------------
(* Properties of parse_raw.                                                *)

\* The chunks of the call at hand, before the filter, and the onsets they start at.
CallChunks == split_raw(call.raw, call.stimulation_idxs, call.samples_before_stim,
                        call.skip_one)
CallIdxs == shifted_idxs(call.stimulation_idxs, call.samples_before_stim,
                         call.skip_one)
NoChunkFiltered ==
    \A i \in 1..Len(CallChunks) : Len(CallChunks[i]) >= call.min_len_chunk
\* The positions of the chunks that survive the min_len_chunk filter.
Surviving ==
    SelectSeq([i \in 1..Len(CallChunks) |-> i],
              LAMBDA i : Len(CallChunks[i]) >= call.min_len_chunk)

\* C1, as stated: with skip_one off and no chunk removed by the filter, the
\* matrix has len(onsets) - 1 rows.  (Stated for a non-empty raw and a filter
\* that drops empty chunks, where every row holds samples.)
C1_RowCountOneLess ==
    (Done("parse_raw") /\ ret.raised = "none" /\ ~call.skip_one /\ NoChunkFiltered
       /\ Len(call.raw) > 0 /\ call.min_len_chunk >= 1)
        => Len(ret.value) = Len(call.stimulation_idxs) - 1

\* C1, amended: with skip_one off, at least one onset and no chunk removed by
\* the filter, parse_raw returns a matrix with len(onsets) rows: one per onset,
\* the last running to the end of raw; only the chunk before the first onset
\* is dropped.
C1_RowCount ==
    (Done("parse_raw") /\ ~call.skip_one /\ Len(call.stimulation_idxs) > 0
       /\ NoChunkFiltered)
        => /\ ret.raised = "none"
           /\ Len(ret.value) = Len(call.stimulation_idxs)

\* Three onsets inside a ramp, nothing filtered: three rows.
C1_Witness ==
    /\ Done("parse_raw") /\ ~call.skip_one
    /\ call.raw = Ramp(5) /\ call.stimulation_idxs = <<1, 2, 4>>
    /\ call.samples_before_stim = 0 /\ call.min_len_chunk = 1
    /\ ret = Returned(<<<<102>>, <<103>>, <<105>>>>)

\* C3: the rows have one common length L, that of the shortest surviving
\* chunk, and row k is raw[s_k : s_k + L] for the k-th retained shifted onset
\* s_k, in onset order.
C3_RowsStartAtOnsets ==
    (Done("parse_raw") /\ ret.raised = "none") =>
        LET L == MinOf({Len(CallChunks[Surviving[k]]) : k \in 1..Len(Surviving)})
        IN  /\ Len(ret.value) = Len(Surviving)
            /\ \A k \in 1..Len(ret.value) :
                  LET s_k == CallIdxs[Surviving[k]]
                  IN  /\ Len(ret.value[k]) = L
                      /\ ret.value[k] = PySlice(call.raw, s_k, s_k + L)

----------------------------------------------------------------------------
(* Properties of trim_equal_len.                                           *)

\* C14: trim_equal_len returns as many sequences as it was given, in the same
\* order, each the prefix of its input of the shortest input's length; applied
\* to its own result it changes nothing.
C14_TrimToShortest ==
    Done("trim_equal_len") =>
        /\ ret.raised = "none"
        /\ Len(ret.value) = Len(call.raw)
        /\ \A i \in 1..Len(call.raw) :
              /\ \A j \in 1..Len(call.raw) : Len(ret.value[i]) <= Len(call.raw[j])
              /\ \E j \in 1..Len(call.raw) : Len(ret.value[i]) = Len(call.raw[j])
              /\ ret.value[i] = SubSeq(call.raw[i], 1, Len(ret.value[i]))
        /\ trim_equal_len(ret.value) = ret.value

\* The spec's example: [[1,2,3,4],[1,2],[1,2,3]] gives [[1,2],[1,2],[1,2]].
C14_Witness ==
    /\ Done("trim_equal_len")
    /\ call.raw = <<<<1, 2, 3, 4>>, <<1, 2>>, <<1, 2, 3>>>>
    /\ ret = Returned(<<<<1, 2>>, <<1, 2>>, <<1, 2>>>>)

----------------------------------------------------------------------------
(* Properties of running_mean.                                             *)

\* The mean of the n samples of x from the 0-based index i on.
WindowMean(x, i, n) == Frac(SumSeq(SubSeq(x, i + 1, i + n)), n)

\* C13, as stated: for every window n >= 1 the result has len(x) - n + 1
\* elements.  (Stated for a signal that holds samples.)
C13_LengthFormula ==
    (Done("running_mean") /\ call.n >= 1 /\ Len(call.x) >= 1) =>
        /\ ret.raised = "none"
        /\ Len(ret.value) = Len(call.x) - call.n + 1

\* C13, amended: for every window n >= 1 the result has
\* max(0, len(x) - n + 1) elements, the i-th being the mean of x[i .. i+n-1];
\* a window of len(x) >= 1 gives the mean of the whole signal alone, and a
\* window longer than the signal gives nothing.
C13_RunningMean ==
    (Done("running_mean") /\ call.n >= 1) =>
        /\ ret.raised = "none"
        /\ Len(ret.value) = Max2(0, Len(call.x) - call.n + 1)
        /\ \A i \in 1..Len(ret.value) :
              ret.value[i] = WindowMean(call.x, i - 1, call.n)
        /\ (call.n = Len(call.x)) =>
              ret.value = <<Frac(SumSeq(call.x), Len(call.x))>>

\* A window of two over four samples: three means.
C13_Witness ==
    /\ Done("running_mean")
    /\ call.x = <<2, 3, -1, 3>> /\ call.n = 2
    /\ ret = Returned(<<Frac(5, 2), Frac(2, 2), Frac(2, 2)>>)

----------------------------------------------------------------------------
(* Properties of get_average_amplitudes.                                   *)

RECURSIVE SumOver(_, _)
SumOver(K, f) ==
    IF K = {} THEN 0
    ELSE LET k == CHOOSE x \in K : TRUE IN f[k] + SumOver(K \ {k}, f)

\* The column-wise mean of the rows of the call's matrix at the 0-based
\* indices K: not-a-number (0/0) in every column when K is empty.
MeanOfRows(K) ==
    [c \in 1..call.parsed_raw.width |->
        Frac(SumOver(K, [k \in K |-> call.parsed_raw.rows[k + 1][c]]),
             Cardinality(K))]
TotalRows == Len(call.parsed_raw.rows)
NumberTested == Len(call.tested_amplitudes)
\* The rows of the matrix inside [lo, hi).
RowsWithin(lo, hi) == {k \in 0..(TotalRows - 1) : lo <= k /\ k < hi}

\* C15: with exactly one tested amplitude, get_average_amplitudes returns one
\* row, the column-wise mean over all the rows of the matrix, whatever
\* pulses_number is.
C15_SingleAmplitude ==
    (Done("get_average_amplitudes") /\ NumberTested = 1) =>
        /\ ret.raised = "none"
        /\ ret.value = <<MeanOfRows(0..(TotalRows - 1))>>

\* Two rows, one amplitude, a pulses_number larger than the row count.
C15_Witness ==
    /\ Done("get_average_amplitudes") /\ NumberTested = 1
    /\ call.parsed_raw.rows = <<<<0, 3>>, <<3, 3>>>>
    /\ call.pulses_number = Some(3)
    /\ ret = Returned(<<<<Frac(3, 2), Frac(6, 2)>>>>)

\* C16, as stated: with two or more tested amplitudes there is one row per
\* amplitude, entry i the mean of the rows [i*p, (i+1)*p) with p the
\* pulses_number, and every block lies inside the matrix, none empty or
\* truncated.  (Stated for a pulses_number of one or more and a matrix that
\* holds rows.)
C16_BlocksInsideMatrix ==
    (Done("get_average_amplitudes") /\ NumberTested >= 2
       /\ call.pulses_number # None /\ call.pulses_number[1] >= 1
       /\ TotalRows >= 1) =>
        LET p == call.pulses_number[1]
        IN  /\ ret.raised = "none"
            /\ Len(ret.value) = NumberTested
            /\ \A i \in 0..(NumberTested - 1) :
                  /\ ret.value[i + 1] = MeanOfRows(RowsWithin(i * p, (i + 1) * p))
                  /\ (i + 1) * p <= TotalRows

\* C16, amended: with two or more tested amplitudes there is one row per
\* amplitude, in order; with p the pulses_number if given and not 0, else
\* floor(total_rows / len(tested_amplitudes)), entry i is the mean of the rows
\* of the matrix that lie in [i*p, (i+1)*p), not-a-number when none does; the
\* ranges are pairwise disjoint; all the blocks lie inside the matrix and
\* hold p >= 1 rows exactly when p >= 1 and len(tested_amplitudes) * p <=
\* total_rows.
C16_BlocksPerAmplitude ==
    (Done("get_average_amplitudes") /\ NumberTested >= 2) =>
        LET p == IF call.pulses_number # None /\ call.pulses_number[1] # 0
                 THEN call.pulses_number[1]
                 ELSE TotalRows \div NumberTested
            block(i) == RowsWithin(i * p, (i + 1) * p)
        IN  /\ ret.raised = "none"
            /\ Len(ret.value) = NumberTested
            /\ \A i \in 0..(NumberTested - 1) :
                  ret.value[i + 1] = MeanOfRows(block(i))
            /\ \A i, j \in 0..(NumberTested - 1) :
                  i # j => block(i) \cap block(j) = {}
            /\ (\A i \in 0..(NumberTested - 1) :
                    Cardinality(block(i)) = p /\ p >= 1)
                  <=> (p >= 1 /\ NumberTested * p <= TotalRows)

\* Four rows, two amplitudes, pulses_number inferred as two: two means of two
\* rows each.
C16_Witness ==
    /\ Done("get_average_amplitudes") /\ NumberTested = 2
    /\ call.parsed_raw.rows = <<<<0>>, <<3>>, <<3>>, <<3>>>>
    /\ call.pulses_number = None
    /\ ret = Returned(<<<<Frac(3, 2)>>, <<Frac(6, 2)>>>>)

----------------------------------------------------------------------------
(* Properties of get_timestamps_stim_blocks and time_to_sample.            *)

BlocksReturned == Done("get_timestamps_stim_blocks") /\ ret.raised = "none"
\* The t2 sample count of the call's time_stim.
CallStimLen == time_to_sample(call.time_stim, call.neudata.fs, FALSE, TRUE, call.cast)
BlockStart(i) == ret.value[i][1]
BlockEnd(i) == ret.value[i][2]

\* C4, as stated: every block has end > start, starts increase strictly and no
\* block overlaps the next, whatever the sync channel, pulses, duration and fs.
\* (Stated for at least one tested amplitude and a duration of a sample or
\* more, where the sample count is that of an ordinary stimulation.)
C4_BlocksDisjoint ==
    (BlocksReturned /\ call.n_amp_tested >= 1
       /\ DecTimes(call.time_stim, call.neudata.fs).w >= 1) =>
        /\ \A i \in 1..Len(ret.value) : WLess(BlockStart(i), BlockEnd(i))
        /\ \A i \in 1..(Len(ret.value) - 1) :
              /\ WLess(BlockStart(i), BlockStart(i + 1))
              /\ WLeq(BlockEnd(i), BlockStart(i + 1))

\* C4, amended: starts increase strictly and every block has end >= start;
\* end > start holds exactly when the t2 sample count of time_stim is at least
\* 1, and block i ends at or before the start of block i+1 exactly when that
\* sample count is at most the distance between the two starts.
C4_BlocksOrdered ==
    BlocksReturned =>
        /\ \A i \in 1..Len(ret.value) :
              /\ WLeq(BlockStart(i), BlockEnd(i))
              /\ WLess(BlockStart(i), BlockEnd(i)) <=> WLeq(Wide(1), CallStimLen)
        /\ \A i \in 1..(Len(ret.value) - 1) :
              /\ WLess(BlockStart(i), BlockStart(i + 1))
              /\ WLeq(BlockEnd(i), BlockStart(i + 1))
                   <=> WLeq(CallStimLen,
                            Wide(BlockStart(i + 1).lo - BlockStart(i).lo))

\* Two blocks of one sample each, three samples apart.
C4_Witness ==
    /\ BlocksReturned
    /\ call.neudata.sync_data = <<1, 0, 0, 1, 0>>
    /\ call.n_amp_tested = 2 /\ call.pulses = 1
    /\ call.time_stim = Dec(2, 0, 0) /\ call.neudata.fs = 1
    /\ ret.value = <<<<Wide(0), Wide(1)>>, <<Wide(3), Wide(4)>>>>

\* C5: the onsets are the rising edges truncated to n_amp_tested * pulses;
\* the blocks start at the onsets at positions 0, pulses, 2*pulses, ... and
\* end stim_len later; there are never more than n_amp_tested blocks, and
\* exactly n_amp_tested when n_amp_tested * pulses edges exist.
C5_BlocksEveryPulses ==
    BlocksReturned =>
        LET edges == Ascending(RisingEdges(call.neudata.sync_data))
            total == call.n_amp_tested * call.pulses
            onsets == SubSeq(edges, 1, Min2(total, Len(edges)))
            kept == PyStride(onsets, call.pulses)
        IN  /\ Len(ret.value) = Len(kept)
            /\ \A i \in 1..Len(ret.value) :
                  /\ BlockStart(i) = Wide(kept[i])
                  /\ BlockEnd(i) = Float64Add(kept[i], CallStimLen)
            /\ Len(ret.value) <= call.n_amp_tested
            /\ Len(edges) >= total => Len(ret.value) = call.n_amp_tested

\* C6: with is_t2 the index is floor(timestamp*fs), one less exactly when the
\* product is an integer to nine decimals; with is_t1 alone it is the ceiling,
\* with neither flag the rounded product; so an integer product k >= 1 gives
\* t2 = k-1 and t1 = k, and a non-integer product gives t2 < t1.
C6_AsymmetricRounding ==
    Done("time_to_sample") =>
        LET sample == DecTimes(call.timestamp, call.fs)
            whole == sample.n = 0 /\ sample.t = 0
            whole9 == NpRound9(sample) = Dec(NpFloor(sample), 0, 0)
            t1 == time_to_sample(call.timestamp, call.fs, TRUE, FALSE, call.cast)
        IN  /\ call.is_t2 =>
                  /\ ret.value = Wide(NpFloor(sample) - (IF whole9 THEN 1 ELSE 0))
                  /\ (whole /\ sample.w >= 1) => ret.value = Wide(sample.w - 1)
                  /\ ~whole => WLess(ret.value, t1)
            /\ (call.is_t1 /\ ~call.is_t2) =>
                  /\ ret.value = Wide(NpCeil(sample))
                  /\ (whole /\ sample.w >= 1) => ret.value = Wide(sample.w)
            /\ (~call.is_t1 /\ ~call.is_t2) => ret.value = Wide(NpRound(sample))

\* C7: multichannel sync data raises the ValueError before any edge detection
\* or block computation; one-dimensional sync data never raises it.
MultichannelError == ret.raised = "ValueError" /\ ret.why = "multichannel sync data"
C7_MultichannelRejected ==
    Done("get_timestamps_stim_blocks") =>
        /\ Len(call.neudata.shape) > 1 => (MultichannelError /\ ret.trace = <<>>)
        /\ Len(call.neudata.shape) = 1 => ~MultichannelError

\* A two-channel sync array: the error, and nothing computed.
C7_Witness ==
    /\ Done("get_timestamps_stim_blocks")
    /\ call.neudata.shape = <<2, MaxSync>>
    /\ call.pulses = 1 /\ call.n_amp_tested = 1
    /\ MultichannelError /\ ret.trace = <<>>

----------------------------------------------------------------------------
(* Properties of the session.                                              *)

CallTrialList == get_runs_list(experiment_structure, skip_subjects, skip_conditions)
\* The trial's run directory holds an events file.
HasEventsFile(trial) ==
    /\ disk[RunPath(trial)].exists
    /\ \E i \in 1..Len(disk[RunPath(trial)].files) :
          MatchesEventsCsv(disk[RunPath(trial)].files[i])

\* C2: create_events_dataset never aborts over a trial without an events file,
\* be its run directory absent or without a matching .csv: the trial is
\* skipped with a warning and the table holds one row per trial whose file was
\* found, in trial-list order.
C2_MissingFileSkipped ==
    method = "create_events_dataset" =>
        /\ raised = "none"
        /\ events_dataset # None
        /\ [i \in 1..Len(events_dataset[1]) |-> events_dataset[1][i][1]]
              = SelectSeq(CallTrialList, HasEventsFile)
        /\ \A i \in 1..Len(CallTrialList) :
              ~HasEventsFile(CallTrialList[i]) =>
                  \E k \in 1..Len(stdout) :
                      stdout[k] = <<"No .csv events File Found For", CallTrialList[i]>>

\* The trial keys <<date, subject, condition, run>> of a table's rows.
TrialKeys(rows) == {rows[i][1] : i \in 1..Len(rows)}

\* C19: after create_events_dataset and then create_raw_neural_dataset, every
\* trial key of the raw neural dataset is a trial key of the events dataset:
\* the neural dataset holds no trial that the events pass skipped.
C19_RawKeysWithinEvents ==
    (/\ method = "create_raw_neural_dataset" /\ raised = "none"
     /\ events_dataset # None
     /\ neural.raw_neural_correlates_dataset.assigned) =>
        TrialKeys(neural.raw_neural_correlates_dataset.value)
            \subseteq TrialKeys(events_dataset[1])

\* Where every listed trial has its events file, the two datasets hold the
\* same trial keys.
C19_AllFilesFound ==
    (/\ method = "create_raw_neural_dataset" /\ raised = "none"
     /\ events_dataset # None
     /\ \A i \in 1..Len(CallTrialList) : HasEventsFile(CallTrialList[i])) =>
        /\ neural.raw_neural_correlates_dataset.assigned
        /\ TrialKeys(neural.raw_neural_correlates_dataset.value)
              = TrialKeys(events_dataset[1])

\* C20: once create_events_dataset and create_raw_neural_dataset have
\* completed, create_psd_dataset ends without an exception, having stored a
\* PSD dataset whose keys condition, date, subject, run are those of the raw
\* neural dataset, and having set freqs.
C20_PsdFromRawDataset ==
    (/\ method = "create_psd_dataset"
     /\ events_dataset # None
     /\ neural.raw_neural_correlates_dataset.assigned) =>
        /\ raised = "none"
        /\ neural.psds_correlates_dict.assigned
        /\ {<<it[1][2], it[1][3], it[1][1], it[1][4]>> :
               it \in {neural.psds_correlates_dict.value[i] :
                          i \in 1..Len(neural.psds_correlates_dict.value)}}
              = TrialKeys(neural.raw_neural_correlates_dataset.value)
        /\ neural.freqs.assigned

----------------------------------------------------------------------------
(* Properties of the KinematicDataRun.                                     *)

\* The six gait attributes of a KinematicDataRun.
GaitAttributes(self) ==
    <<self.left_mtp_lift, self.left_mtp_land, self.left_mtp_max,
      self.right_mtp_lift, self.right_mtp_land, self.right_mtp_max>>

\* C17, as stated: compute_gait_cycles_bounds with a left or a right reference
\* marker absent from the markers table raises a ValueError listing the
\* table's marker names and leaves the six attributes left/right_mtp_lift,
\* _land, _max as they were, whatever the table, the empty one of __init__
\* included.
C17_AbsentMarkerValueError ==
    [][(/\ call'.fn = "compute_gait_cycles_bounds"
        /\ \/ ~PyIn(call'.left_marker, kinematic_run.markers_df.bodyparts)
           \/ ~PyIn(call'.right_marker, kinematic_run.markers_df.bodyparts))
       => /\ ret'.raised = "ValueError"
          /\ ret'.listed = kinematic_run.markers_df.bodyparts
          /\ GaitAttributes(kinematic_run') = GaitAttributes(kinematic_run)]_vars

\* C17, amended: on a markers table that holds markers (one loaded from a
\* file, or a DeepLabCut table), compute_gait_cycles_bounds with a left or a
\* right reference marker that the table does not hold raises a ValueError
\* listing the table's marker names, and leaves the six attributes
\* left/right_mtp_lift, _land, _max as they were, also when only the right
\* marker is absent.
C17_AbsentMarkerRejected ==
    [][(/\ call'.fn = "compute_gait_cycles_bounds"
        /\ kinematic_run.markers_df.loaded
        /\ \/ ~PyIn(call'.left_marker, kinematic_run.markers_df.bodyparts)
           \/ ~PyIn(call'.right_marker, kinematic_run.markers_df.bodyparts))
       => /\ ret'.raised = "ValueError"
          /\ ret'.listed = kinematic_run.markers_df.bodyparts
          /\ GaitAttributes(kinematic_run') = GaitAttributes(kinematic_run)]_vars

\* The bounds were computed with the markers swapped; a second call with a
\* valid left and an absent right marker is rejected and the first bounds
\* stand.
C17_Witness ==
    /\ call.fn = "compute_gait_cycles_bounds"
    /\ call.left_marker = "lmtp" /\ call.right_marker = "nose"
    /\ ret.raised = "ValueError" /\ ret.listed = <<"lmtp", "rmtp">>
    /\ kinematic_run.left_mtp_lift = Some(get_toe_lift_landing(Trajectory("rmtp")).lift)
    /\ kinematic_run.right_mtp_max = Some(get_toe_lift_landing(Trajectory("lmtp")).max)
    /\ kinematic_run.left_mtp_lift # Some(get_toe_lift_landing(Trajectory("lmtp")).lift)

\* C18: load_kinematics with correct_shift on and a shift reference marker
\* that is not among the file's markers, or with correct_tilt on and such a
\* tilt reference marker (the shift arguments, if used, being valid), raises
\* a ValueError listing the marker names, with no shift or tilt correction
\* applied to markers_df.
C18_ReferenceMarkerValidated ==
    Done("load_kinematics") =>
        LET shift_absent == call.correct_shift
                            /\ ~PyIn(call.shift_reference_marker, c3d_file)
            shift_passes == ~call.correct_shift
                            \/ (/\ PyIn(call.shift_reference_marker, c3d_file)
                                /\ IsSubset(call.to_shift, c3d_file))
            tilt_absent  == call.correct_tilt
                            /\ ~PyIn(call.tilt_reference_marker, c3d_file)
        IN  (shift_absent \/ (shift_passes /\ tilt_absent)) =>
                /\ ret.raised = "ValueError"
                /\ ret.listed = c3d_file
                /\ kinematic_run.markers_df.corrections = <<>>

\* The tilt half alone: with correct_shift off, an absent tilt reference
\* marker raises the ValueError, nothing corrected; it lists the table's
\* column labels, three per marker.
C18_TiltAlone ==
    (Done("load_kinematics") /\ ~call.correct_shift /\ call.correct_tilt
       /\ ~PyIn(call.tilt_reference_marker, c3d_file)) =>
        /\ ret.raised = "ValueError"
        /\ ret.listed = columns_tolist(import_c3d(c3d_file))
        /\ kinematic_run.markers_df.corrections = <<>>

----------------------------------------------------------------------------
(* Properties of the gait segmentation.                                    *)

\* C21: the lift, land and max series of a limb trace are each strictly
\* increasing and of one length, with lift[i] < max[i] < land[i] for every i
\* and every land before the next lift; no land precedes the first lift and
\* no lift follows the last land, whatever the trace starts or ends with.
C21_GaitSeriesPaired ==
    Done("get_toe_lift_landing") =>
        LET lift == ret.value.lift
            land == ret.value.land
            max  == ret.value.max
        IN  /\ ret.raised = "none"
            /\ Len(lift) = Len(land) /\ Len(max) = Len(lift)
            /\ StrictlyIncreasing(lift) /\ StrictlyIncreasing(land)
            /\ StrictlyIncreasing(max)
            /\ \A i \in 1..Len(lift) : lift[i] < max[i] /\ max[i] < land[i]
            /\ \A i \in 1..(Len(lift) - 1) : land[i] <= lift[i + 1]

\* A trace that starts in the air and ends in the air, with one whole cycle
\* between: the cycle alone is reported.
C21_Witness ==
    /\ Done("get_toe_lift_landing")
    /\ call.y = <<2, 0, 0, 2, 0, 0, 2>>
    /\ ret.value = [lift |-> <<2>>, land |-> <<5>>, max |-> <<3>>]

----------------------------------------------------------------------------
(* Properties of save_dataset.                                             *)

Saved(dataset) == method = "save_dataset" /\ call.dataset = dataset

\* A name outside the accepted three: ValueError, nothing persisted.
C22_UnknownNameRejected ==
    (method = "save_dataset"
        /\ ~(\E i \in 1..Len(accepted_datasets) : accepted_datasets[i] = call.dataset))
    => raised = "ValueError" /\ saved = <<>>

\* C22: save_dataset raises ValueError and persists nothing for a name
\* outside the three accepted ones; for an accepted name, called after the
\* corresponding create_* method has completed, it persists what that method
\* built: the events table; the raw neural dataset and fs; the psd dataset and
\* freqs.
C22_SavePersistsBuiltDataset ==
    /\ C22_UnknownNameRejected
    /\ (Saved("events_dataset") /\ events_dataset # None)
        => raised = "none" /\ saved = <<<<events_dataset[1], call.filename>>>>
    /\ (Saved("raw_neural_correlates_dataset")
            /\ neural.raw_neural_correlates_dataset.assigned)
        => /\ raised = "none"
           /\ PyIn(<<neural.raw_neural_correlates_dataset.value, call.filename>>, saved)
           /\ PyIn(<<neural.fs.value, "fs">>, saved)
    /\ (Saved("psd_neural_correlates_dataset") /\ neural.psds_correlates_dict.assigned)
        => /\ raised = "none"
           /\ PyIn(<<neural.psds_correlates_dict.value, call.filename>>, saved)
           /\ PyIn(<<neural.freqs.value, "freqs">>, saved)

----------------------------------------------------------------------------
(* Properties of the passes on a session as constructed.                   *)

\* The session as __init__ leaves it: no method called yet.
Fresh == method = "none" /\ events_dataset = None /\ neural = NewNeuralAttributes

\* The call prints its guidance and returns, leaving every attribute alone.
GuidanceOnly(message) ==
    /\ raised' = "none"
    /\ stdout' = <<message>>
    /\ UNCHANGED <<neural, events_dataset, saved>>

\* create_raw_neural_dataset on a session as constructed prints its guidance
\* and returns without touching an attribute.
C23_RawGuidance ==
    [][(Fresh /\ method' = "create_raw_neural_dataset")
        => GuidanceOnly("Please create or load an events dictionary first")]_vars

\* C23: on a session as constructed, create_raw_neural_dataset (no events
\* dataset yet) and create_psd_dataset (no raw neural dataset yet) each print
\* their guidance message and return without an exception and without
\* modifying stream_names, ch_of_interest, fs, freqs or any dataset.
C23_FreshSessionGuidance ==
    [][/\ (Fresh /\ method' = "create_raw_neural_dataset")
            => GuidanceOnly("Please create or load an events dictionary first")
       /\ (Fresh /\ method' = "create_psd_dataset")
            => GuidanceOnly("Please create or load a raw neural dictionary first")]_vars

----------------------------------------------------------------------------
(* features/joint_features.py: CustomJointFeatures.compute_feature.        *)

\* kwargs.get(key): the value passed under the keyword, None when the
\* keyword was not passed.  kwargs is [feature_names, custom_features], each
\* None or Some(value).
kwargs_get(kwargs, key) == kwargs[key]

\* The columns of the table whose label holds the marker, in table order,
\* marker by marker.
RECURSIVE target_markers_coords(_, _)
target_markers_coords(bodyparts, bodyparts_coordinates) ==
    IF bodyparts = <<>> THEN <<>>
    ELSE SelectSeq(bodyparts_coordinates, LAMBDA coord : PyIn(Head(bodyparts), coord))
         \o target_markers_coords(Tail(bodyparts), bodyparts_coordinates)

\* The inner loop over the joints for one feature name: a column per joint.
joint_columns(func, name, target_bodyparts, bodyparts_coordinates) ==
    [j \in 1..Len(target_bodyparts) |->
        [column |-> <<target_bodyparts[j][1], name>>,
         feat |-> <<func, target_markers_coords(target_bodyparts[j][2],
                                                bodyparts_coordinates)>>]]

\* The outer loop over feature_names: st is [df_feat_list, raised, why].
RECURSIVE feature_loop(_, _, _, _, _)
feature_loop(st, feature_names, custom_features, target_bodyparts, coordinates) ==
    IF st.raised # "none" \/ feature_names = <<>> THEN st
    ELSE
      LET name == Head(feature_names)
      IN  IF custom_features = None
          THEN \* None[name]: TypeError, which the except KeyError lets through
               [st EXCEPT !.raised = "TypeError",
                          !.why = <<"'NoneType' object is not subscriptable">>]
          ELSE IF ~HasKey(custom_features[1], name)
          THEN [st EXCEPT !.raised = "KeyError",
                          !.why = <<"No function found with name: ", name>>]
          ELSE feature_loop(
                   [st EXCEPT !.df_feat_list =
                        @ \o joint_columns(Lookup(custom_features[1], name), name,
                                           target_bodyparts, coordinates)],
                   Tail(feature_names), custom_features, target_bodyparts, coordinates)

\* compute_feature(df, target_bodyparts, **kwargs): df is the list of the
\* table's column labels, target_bodyparts the joints as <<joint, markers>>
\* items.  kwargs.get never raises, so the first except clause is dead: a
\* missing feature_names is None, and the for statement over it a TypeError.
compute_feature(df, target_bodyparts, kwargs) ==
    LET feature_names == kwargs_get(kwargs, "feature_names")
    IN  IF feature_names = None
        THEN Raised("TypeError", <<"'NoneType' object is not iterable">>)
        ELSE
          LET end == feature_loop([df_feat_list |-> <<>>, raised |-> "none", why |-> <<>>],
                                  feature_names[1],
                                  kwargs_get(kwargs, "custom_features"),
                                  target_bodyparts, df)
          IN  IF end.raised # "none" THEN Raised(end.raised, end.why)
              ELSE Returned(end.df_feat_list)

FeatureNameLists == {<<>>, <<"speed">>, <<"speed", "jerk">>, <<"jerk", "speed">>}
CustomFeatureMaps ==
    {<<>>, <<<<"speed", "np.ptp">>>>, <<<<"speed", "np.ptp">>, <<"jerk", "np.std">>>>}
Keywords ==
    [feature_names : {None} \cup {Some(n) : n \in FeatureNameLists},
     custom_features : {None} \cup {Some(m) : m \in CustomFeatureMaps}]
JointMaps ==
    {<<>>, <<<<"knee", <<"hip", "knee", "ankle">>>>>>,
     <<<<"knee", <<"hip", "knee", "ankle">>>>, <<"ankle", <<"knee", "ankle", "toe">>>>>>}
ColumnLabels ==
    {<<<<"hip", "x">>, <<"knee", "x">>, <<"ankle", "x">>>>,
     <<<<"hip", "x">>, <<"hip", "y">>, <<"knee", "x">>, <<"knee", "y">>,
       <<"ankle", "x">>, <<"ankle", "y">>, <<"toe", "x">>, <<"toe", "y">>>>}
FeatureCalls ==
    {[fn |-> "compute_feature", df |-> df, target_bodyparts |-> t, kwargs |-> k] :
        df \in ColumnLabels, t \in JointMaps, k \in Keywords}

CallComputeFeature ==
    /\ call.fn = "compute_feature" /\ ret = Pending
    /\ ret' = compute_feature(call.df, call.target_bodyparts, call.kwargs)
    /\ UNCHANGED <<call, sessionvars>>

InitFeatures == call \in FeatureCalls /\ ret = Pending /\ NoSession
NextFeatures == CallComputeFeature
SpecFeatures == InitFeatures /\ [][NextFeatures]_vars

\* The first listed feature name that custom_features has no entry for.
RECURSIVE FirstMissing(_, _)
FirstMissing(names, custom_features) ==
    IF names = <<>> THEN None
    ELSE IF custom_features = None \/ ~HasKey(custom_features[1], Head(names))
    THEN Some(Head(names))
    ELSE FirstMissing(Tail(names), custom_features)

\* A listed name without an entry in a custom_features mapping that was
\* passed: KeyError naming it.
C24_MissingEntryNamed ==
    (Done("compute_feature")
        /\ call.kwargs.feature_names # None /\ call.kwargs.custom_features # None
        /\ FirstMissing(call.kwargs.feature_names[1], call.kwargs.custom_features) # None)
    => ret = Raised("KeyError",
                    <<"No function found with name: ",
                      FirstMissing(call.kwargs.feature_names[1],
                                   call.kwargs.custom_features)[1]>>)

\* C24: compute_feature raises KeyError with the documented message when a
\* required key is missing: "No name found for the Custom Join Function..."
\* when feature_names is not passed, "No function found with name: <name>..."
\* when custom_features is absent or lacks a listed name; no other exception
\* escapes and no feature column is produced.
C24_MissingKeyIsKeyError ==
    Done("compute_feature") =>
        /\ call.kwargs.feature_names = None
            => ret = Raised("KeyError", <<"No name found for the Custom Join Function. ">>)
        /\ (call.kwargs.feature_names # None
                /\ FirstMissing(call.kwargs.feature_names[1],
                                call.kwargs.custom_features) # None)
            => ret = Raised("KeyError",
                            <<"No function found with name: ",
                              FirstMissing(call.kwargs.feature_names[1],
                                           call.kwargs.custom_features)[1]>>)

----------------------------------------------------------------------------
(* utils/neural/processing.py: get_median_distance.                        *)

\* np.sort
RECURSIVE NpSort(_)
NpSort(a) ==
    IF a = <<>> THEN <<>>
    ELSE LET i == ArgMin(a) + 1
         IN  <<a[i]>> \o NpSort(SubSeq(a, 1, i - 1) \o SubSeq(a, i + 1, Len(a)))

\* np.median: the middle of the sorted values, the mean of the two middle
\* ones for an even count, nan (0/0) for none.
NpMedian(a) ==
    LET sorted == NpSort(a)
        n == Len(a)
    IN  IF n = 0 THEN Frac(0, 0)
        ELSE IF n % 2 = 1 THEN Frac(sorted[(n + 1) \div 2], 1)
        ELSE Frac(sorted[n \div 2] + sorted[n \div 2 + 1], 2)

\* The signed differences a[i] - a[i + 1] collected by the loop.
consecutive_differences(a) == [i \in 1..(Len(a) - 1) |-> a[i] - a[i + 1]]

\* abs(np.median(distances)): the median is taken of the signed differences
\* and made positive afterwards.
get_median_distance(a) ==
    LET median == NpMedian(consecutive_differences(a))
    IN  Frac(Abs(median.num), median.den)

PointLevels == {0, 1, 3, 10}
MedianCalls ==
    {[fn |-> "get_median_distance", a |-> a] : a \in SeqsUpTo(PointLevels, MaxPoints)}

CallGetMedianDistance ==
    /\ call.fn = "get_median_distance" /\ ret = Pending
    /\ ret' = Returned(get_median_distance(call.a))
    /\ UNCHANGED <<call, sessionvars>>

InitMedian == call \in MedianCalls /\ ret = Pending /\ NoSession
NextMedian == CallGetMedianDistance
SpecMedian == InitMedian /\ [][NextMedian]_vars

\* Two fractions of one value.
SameFraction(p, q) == p.den # 0 /\ q.den # 0 /\ p.num * q.den = q.num * p.den
\* The distances |a[i] - a[i + 1]| between consecutive points.
Distances(a) == [i \in 1..(Len(a) - 1) |-> Abs(a[i] - a[i + 1])]
Monotonic(a) ==
    \/ \A i \in 1..(Len(a) - 1) : a[i] <= a[i + 1]
    \/ \A i \in 1..(Len(a) - 1) : a[i] >= a[i + 1]

\* On a monotonic array the result is the median of the distances.
C25_MonotonicMedian ==
    (Done("get_median_distance") /\ Len(call.a) >= 2 /\ Monotonic(call.a))
    => SameFraction(ret.value, NpMedian(Distances(call.a)))

\* C25: for an array of at least two points get_median_distance returns the
\* median of the distances |a[i] - a[i+1]| between consecutive points, whether
\* the array is monotonic or not (10 for [0, 10, 0]).
C25_MedianOfDistances ==
    (Done("get_median_distance") /\ Len(call.a) >= 2)
    => SameFraction(ret.value, NpMedian(Distances(call.a)))

----------------------------------------------------------------------------
(* Properties of the conversion to an unsigned index.                      *)

\* For a product of at least one sample the index stays in range.
C26_InRangeFromOneSample ==
    (Done("time_to_sample") /\ DecTimes(call.timestamp, call.fs).w >= 1)
    => /\ ret.value.hi = 0
       /\ WLeq(ret.value, Wide(NpCeil(DecTimes(call.timestamp, call.fs))))

\* C26: for every timestamp >= 0, fs > 0 and flag combination the value that
\* time_to_sample converts to uint64 is non-negative, so the index returned
\* never wraps modulo 2^64 and never exceeds ceil(timestamp * fs), also with
\* is_t2 and a product of 0; and a block's end is never more than
\* ceil(time_stim * fs) samples after its onset.
C26_NeverWraps ==
    /\ Done("time_to_sample") =>
          LET sample == DecTimes(call.timestamp, call.fs)
              floor == NpFloor(sample)
          IN  /\ (call.is_t2 /\ NpRound9(sample) = Dec(floor, 0, 0)) => floor - 1 >= 0
              /\ ret.value.hi = 0
              /\ WLeq(ret.value, Wide(NpCeil(sample)))
    /\ BlocksReturned =>
          \A i \in 1..Len(ret.value) :
              WLeq(BlockEnd(i),
                   Wide(BlockStart(i).lo
                        + NpCeil(DecTimes(call.time_stim, call.neudata.fs))))

----------------------------------------------------------------------------
(* parse_raw and the arrays of its caller.                                 *)

\* stimulation_idxs[0] = 0 when stimulation_idxs[0] < 0: an item assignment,
\* which writes into the array itself.
clamp_first(array) ==
    [i \in 1..Len(array) |-> IF i = 1 /\ array[1] < 0 THEN 0 ELSE array[i]]

\* parse_raw shifting with `stimulation_idxs -= samples_before_stim`: the
\* subtraction and the clamp are written into the caller's array.
parse_raw_arrays_in_place(raw, stimulation_idxs, samples_before_stim) ==
    LET shifted == [i \in 1..Len(stimulation_idxs) |->
                        stimulation_idxs[i] - samples_before_stim]
        heap == [caller_raw |-> raw, caller_idxs |-> clamp_first(shifted)]
    IN  [raw |-> heap.caller_raw, stimulation_idxs |-> heap.caller_idxs]

\* The caller's two arrays as parse_raw leaves them.  The heap holds the
\* arrays, the local name stimulation_idxs is bound to one of them: the binary
\* minus of the first statement allocates a new array and rebinds the name to
\* it, so the clamp writes into the new array; the stride and np.split take
\* views and write nothing.
parse_raw_arrays(raw, stimulation_idxs, samples_before_stim) ==
    LET shifted == [i \in 1..Len(stimulation_idxs) |->
                        stimulation_idxs[i] - samples_before_stim]
        heap == [caller_raw |-> raw, caller_idxs |-> stimulation_idxs,
                 local_idxs |-> clamp_first(shifted)]
    IN  [raw |-> heap.caller_raw, stimulation_idxs |-> heap.caller_idxs]

\* A caller that copies its arrays, then calls parse_raw on them, twice:
\* call holds the caller's arrays, ret the copies and the matrices returned.
CallParseRawAgain ==
    /\ call.fn = "parse_raw"
    /\ IF ret = Pending THEN TRUE ELSE Len(ret.results) = 1
    /\ LET after == parse_raw_arrays(call.raw, call.stimulation_idxs,
                                     call.samples_before_stim)
           result == parse_raw(call.raw, call.stimulation_idxs,
                               call.samples_before_stim, call.skip_one,
                               call.min_len_chunk)
       IN  /\ ret' = [raised |-> "none",
                      before |-> IF ret = Pending
                                 THEN [raw |-> call.raw,
                                       stimulation_idxs |-> call.stimulation_idxs]
                                 ELSE ret.before,
                      results |-> IF ret = Pending THEN <<result>>
                                  ELSE Append(ret.results, result)]
           /\ call' = [fn |-> "parse_raw", raw |-> after.raw,
                       stimulation_idxs |-> after.stimulation_idxs,
                       samples_before_stim |-> call.samples_before_stim,
                       skip_one |-> call.skip_one,
                       min_len_chunk |-> call.min_len_chunk]
    /\ UNCHANGED sessionvars

ReparseCalls == {c \in ParseCalls : c.fn = "parse_raw"}
InitReparse == call \in ReparseCalls /\ ret = Pending /\ NoSession
NextReparse == CallParseRawAgain
SpecReparse == InitReparse /\ [][NextReparse]_vars

\* C27: parse_raw leaves its inputs unchanged: after the call the caller's
\* stimulation_idxs holds the onsets it held before (neither the shift by
\* samples_before_stim nor the clamp of the first onset shows) and raw is
\* unchanged, so a second call with the same arguments returns an equal matrix.
C27_InputsUnchanged ==
    (call.fn = "parse_raw" /\ ret # Pending) =>
        /\ call.raw = ret.before.raw
        /\ call.stimulation_idxs = ret.before.stimulation_idxs
        /\ Len(ret.results) = 2 =>
               /\ ret.results[1].raised = ret.results[2].raised
               /\ ret.results[1].raised = "none"
                    => ret.results[1].value = ret.results[2].value

\* Two calls with a first onset that the shift takes below 0 and the clamp
\* brings back to 0: the caller still holds the onsets 1 and 3.
C27_Witness ==
    /\ call.fn = "parse_raw" /\ ret # Pending
    /\ Len(ret.results) = 2
    /\ call.stimulation_idxs = <<1, 3>> /\ call.samples_before_stim = 2
    /\ call.raw = Ramp(5) /\ ~call.skip_one /\ call.min_len_chunk = 1
    /\ ret.results[2] = Returned(<<<<Ramp(5)[1]>>, <<Ramp(5)[2]>>>>)

----------------------------------------------------------------------------
(* Properties of the assignment of events_dataset.                         *)

\* C28: create_events_dataset assigns events_dataset once, after the whole
\* trial list has been walked: a call that ends with an exception part-way
\* leaves events_dataset as it was before the call, and a call that succeeds
\* leaves a table of the rows it built alone, one per trial whose file was
\* found, replacing a previous table.
C28_AssignedOnceAfterWalk ==
    [][method' = "create_events_dataset" =>
          /\ raised' # "none" => events_dataset' = events_dataset
          /\ raised' = "none" =>
                /\ events_dataset' # None
                /\ [i \in 1..Len(events_dataset'[1]) |-> events_dataset'[1][i][1]]
                      = SelectSeq(CallTrialList, HasEventsFile)]_vars

\* A walk that built the first trial's row and then met a run directory
\* without an events file: IndexError, and events_dataset is still None.
C28_Witness ==
    /\ method = "create_events_dataset" /\ raised = "IndexError"
    /\ Len(CallTrialList) >= 2
    /\ HasEventsFile(CallTrialList[1])
    /\ disk[RunPath(CallTrialList[2])].exists /\ ~HasEventsFile(CallTrialList[2])
    /\ events_dataset = None

====
